---------------------------- MODULE Spec2Model ----------------------------
(***************************************************************************)
(* A model of the firebolt client: the intent sampler of App.tsx           *)
(* (determineAnimation, key handlers) and the local player of Player.tsx   *)
(* (client-side prediction, reconciliation against the authoritative       *)
(* snapshot, the Follow/Orbital camera, the animation selector and the     *)
(* clip loader), and the homing projectile of GameScene.tsx.               *)
(*                                                                         *)
(* Numbers are fixed point.  Positions are in units of 1/PosScale of a     *)
(* world unit, angles in milliradians, sines and cosines in thousandths,   *)
(* zoom distances in thousandths of a world unit, time in half ticks       *)
(* (1/120 s).  Every product that the source rounds only by floating       *)
(* point is rounded here to the nearest unit by RoundDiv.                  *)
(***************************************************************************)
EXTENDS Integers, Sequences, FiniteSets, TLC

VARIABLES
    animIn,           \* determineAnimation: the InputState it is applied to
    animOut,          \* determineAnimation: its result ("none" before the call)
    currentInput,     \* App.tsx currentInputRef.current (shared with Player as currentInput)
    cameraMode,       \* Player.tsx cameraMode state
    isPointerLocked,  \* Player.tsx isPointerLocked ref
    localPosition,    \* Player.tsx localPositionRef
    localYaw,         \* Player.tsx localRotationRef.current.y
    orbital,          \* Player.tsx orbitalCameraRef
    zoomLevel,        \* Player.tsx zoomLevel ref
    targetZoom,       \* Player.tsx targetZoom ref
    playerData,       \* the playerData prop: the latest authoritative snapshot
    playerRotation,   \* App.tsx playerRotationRef (x and y)
    clock,            \* wall-clock time since the model was loaded, in half ticks
    frames,           \* render frames run by useFrame
    advances,         \* prediction advances copied into localPositionRef
    lastFrame,        \* history: what the last render frame read and computed
    yawAtEntry,       \* history: localYaw at the last entry into Orbital
    steps,            \* events and render frames so far (bounded)
    animations,       \* Player.tsx animations state: the names of the installed clips
    currentAnimation, \* Player.tsx currentAnimation state
    animationTag,     \* playerData.currentAnimation of the latest snapshot
    actions,          \* the mixer's AnimationAction of each installed clip
    listener,         \* the clip whose 'finished' listener is registered ("none")
    idleTimeout,      \* the 100 ms initial-idle timeout is pending
    effectsPending,   \* a render was committed whose effects have not run yet
    lastEvent,        \* history: the last selector callback and what it handled
    selectorEvents,   \* selector events so far (bounded)
    loadState,        \* loadAnimations: where the load of each clip stands
    newAnimations,    \* loadAnimations: the clips processed successfully so far
    loadedCount,      \* loadAnimations: loadedCount
    installs,         \* history: the calls of setAnimations, as the clip sets they installed
    pendingAtInstall, \* history: the loads still unfinished at the first setAnimations
    projPosition,     \* SmoothProjectile currentPosition (ground plane)
    projVelocity,     \* SmoothProjectile velocity: at rest, or its heading at full speed
    projTarget,       \* the position of targetPlayer ("none" without a target)
    lastProjFrame,    \* history: what the last projectile frame read and computed
    projFrames,       \* projectile frames and target moves so far (bounded)
    projectile,       \* the projectile prop: the projectile's authoritative row
    projSpawn,        \* history: the row and the players map the projectile was mounted with
    players,          \* App.tsx players state: identity -> latest row
    localPlayer,      \* App.tsx localPlayer state (a row, or NoRow)
    conn,             \* the module-level conn handle is set
    identity,         \* App.tsx identity state ("none" for null)
    connected,        \* App.tsx connected state
    statusMessage,    \* App.tsx statusMessage state, by its prefix
    sequence,         \* currentInputRef.current.sequence
    animationFrameId, \* animationFrameIdRef holds a scheduled game-loop callback
    lastSentInputState, \* App.tsx lastSentInputState ref
    lastMessage,      \* history: the last updatePlayerInput call, with the predictor's state then
    sentCount,        \* history: updatePlayerInput calls so far
    loopCount,        \* history: game-loop iterations run while connected, and those without a call
    lastRow,          \* history: the last row event received for each identity
    sessionEvents,    \* session events so far (bounded)
    held,             \* history: the keys and mouse buttons physically held down
    pressEdges,       \* history: KeyC presses that were not repeats (bounded)
    instanceState,    \* a Player instance: "none", "mounted" or "tornDown"
    registered,       \* listener type -> the handlers registered by the instance
    effectHandler,    \* effect -> the handler its cleanup will remove (0 for none)
    mixerState,       \* the mixer of the model load: "none", "created" or "stopped"
    cleanupMixer,     \* the mixer state value the model effect's cleanup closed over
    trackedCurrent,   \* the current animation is a loaded one-shot the completion effect tracks
    isDebugArrowVisible, \* the isDebugArrowVisible prop
    arrowInScene,     \* the debug arrow is a child of the scene
    lifeEvents,       \* lifecycle events so far (bounded)
    pendingFrames,    \* requestAnimationFrame callbacks neither run nor cancelled, each
                      \* with the connected and identity its gameLoop closed over
    frameRef,         \* animationFrameIdRef.current (0 for null)
    effectStale,      \* a render changed the game-loop effect's dependencies and the
                      \* effect has not been flushed yet
    appMounted,       \* App is mounted
    loopEvents,       \* game-loop scheduling events so far (bounded)
    health,           \* playerData.health as PlayerUI last rendered it
    lastHealth,       \* PlayerUI's lastHealth state
    showDamageFlash,  \* PlayerUI's showDamageFlash state
    flashTimer,       \* the 300 ms timer that ends the flash is pending
    lastUpdate,       \* history: the latest health change and what the effect did with it
    hudEvents         \* HUD events so far (bounded)

animVars == <<animIn, animOut>>
playerVars == <<currentInput, cameraMode, isPointerLocked, localPosition, localYaw,
                orbital, zoomLevel, targetZoom, playerData, playerRotation, clock,
                frames, advances, lastFrame, yawAtEntry, steps>>
selectorVars == <<animations, currentAnimation, animationTag, actions, listener,
                  idleTimeout, effectsPending, lastEvent, selectorEvents>>
loaderVars == <<loadState, newAnimations, loadedCount, installs, pendingAtInstall>>
projectileVars == <<projPosition, projVelocity, projTarget, lastProjFrame, projFrames>>
targetingVars == <<projectile, projSpawn>>
appVars == <<players, localPlayer, conn, identity, connected, statusMessage, sequence,
             animationFrameId,
             lastSentInputState, lastMessage, sentCount, loopCount, lastRow, sessionEvents>>
inputVars == <<held, pressEdges>>
lifecycleVars == <<instanceState, registered, effectHandler, mixerState, cleanupMixer,
                   trackedCurrent, isDebugArrowVisible, arrowInScene, lifeEvents>>
loopVars == <<pendingFrames, frameRef, effectStale, appMounted, loopEvents>>
hudVars == <<health, lastHealth, showDamageFlash, flashTimer, lastUpdate, hudEvents>>
extraVars == <<inputVars, lifecycleVars, loopVars, hudVars>>
laterVars == <<loaderVars, projectileVars, targetingVars, appVars, extraVars>>
restVars == <<selectorVars, laterVars>>
vars == <<animIn, animOut, currentInput, cameraMode, isPointerLocked, localPosition,
          localYaw, orbital, zoomLevel, targetZoom, playerData, playerRotation, clock,
          frames, advances, lastFrame, yawAtEntry, steps, selectorVars, laterVars>>

-----------------------------------------------------------------------------
(* Arithmetic helpers *)

Abs(n) == IF n < 0 THEN -n ELSE n

\* n / d rounded to the nearest integer, halves away from zero (d > 0)
RoundDiv(n, d) ==
    IF n >= 0 THEN (n + d \div 2) \div d ELSE -(((-n) + d \div 2) \div d)

Max(a, b) == IF a > b THEN a ELSE b
Min(a, b) == IF a < b THEN a ELSE b

-----------------------------------------------------------------------------
(* Intent sampler: App.tsx *)

InputFlags == {"forward", "backward", "left", "right", "sprint", "jump", "attack", "castSpell"}

\* every InputState, sequence apart
AllInputs == [InputFlags -> BOOLEAN]

NoInput == [k \in InputFlags |-> FALSE]

\* the direction chosen by the if/else-if chain of determineAnimation
MoveDirection(input) ==
    IF input.forward /\ ~input.backward THEN "forward"
    ELSE IF input.backward /\ ~input.forward THEN "back"
    ELSE IF input.left /\ ~input.right THEN "left"
    ELSE IF input.right /\ ~input.left THEN "right"
    ELSE IF input.forward /\ input.left THEN "left"
    ELSE IF input.forward /\ input.right THEN "right"
    ELSE IF input.backward /\ input.left THEN "left"
    ELSE IF input.backward /\ input.right THEN "right"
    ELSE "forward"

AnimName(moveType, direction) ==
    IF moveType = "run"
    THEN (CASE direction = "forward" -> "run-forward"
            [] direction = "back" -> "run-back"
            [] direction = "left" -> "run-left"
            [] direction = "right" -> "run-right")
    ELSE (CASE direction = "forward" -> "walk-forward"
            [] direction = "back" -> "walk-back"
            [] direction = "left" -> "walk-left"
            [] direction = "right" -> "walk-right")

\* mutant: jump is tested before castSpell
determineAnimationJumpFirst(input) ==
    IF input.attack THEN "attack1"
    ELSE IF input.jump THEN "jump"
    ELSE IF input.castSpell THEN "cast"
    ELSE IF ~(input.forward \/ input.backward \/ input.left \/ input.right) THEN "idle"
    ELSE AnimName(IF input.sprint THEN "run" ELSE "walk", MoveDirection(input))

\* mutant: sprint is ignored, the move type is always walk
determineAnimationNoSprint(input) ==
    IF input.attack THEN "attack1"
    ELSE IF input.castSpell THEN "cast"
    ELSE IF input.jump THEN "jump"
    ELSE IF ~(input.forward \/ input.backward \/ input.left \/ input.right) THEN "idle"
    ELSE AnimName("walk", MoveDirection(input))

determineAnimation(input) ==
    IF input.attack THEN "attack1"
    ELSE IF input.castSpell THEN "cast"
    ELSE IF input.jump THEN "jump"
    ELSE IF ~(input.forward \/ input.backward \/ input.left \/ input.right) THEN "idle"
    ELSE AnimName(IF input.sprint THEN "run" ELSE "walk", MoveDirection(input))

-----------------------------------------------------------------------------
(* Constants of Player.tsx, in the model's units *)

SERVER_TICK_RATE == 60

\* the fixed prediction delta, 1 / SERVER_TICK_RATE s, in ticks
SERVER_TICK_DELTA == 1

\* position units per world unit: 600, so that a tick's walk is a whole number
PosScale == 10 * SERVER_TICK_RATE

\* world units per second
PLAYER_SPEED == 5

\* 1.8, in tenths
SPRINT_MULTIPLIER == 18

\* 0.4 world units, in position units
POSITION_RECONCILE_THRESHOLD == 240

\* 0.1 rad, in milliradians
ROTATION_RECONCILE_THRESHOLD == 100

\* 0.15, in hundredths
RECONCILE_LERP_FACTOR == 15

\* Math.PI, in milliradians
Pi == 3142

TwoPi == 2 * Pi
HalfPi == Pi \div 2

\* Math.PI / 6, the orbital elevation set on entry
DefaultElevation == RoundDiv(Pi, 6)

\* Math.PI / 12 and Math.PI / 2.1, the clamp of the orbital elevation
MinElevation == RoundDiv(Pi, 12)
MaxElevation == RoundDiv(Pi * 10, 21)

-----------------------------------------------------------------------------
(* Vector and angle arithmetic of three.js, as Player.tsx uses it *)

Vec(x, y, z) == [x |-> x, y |-> y, z |-> z]

\* Vector3.distanceTo, squared
DistSq(a, b) ==
    (a.x - b.x) * (a.x - b.x) + (a.y - b.y) * (a.y - b.y) + (a.z - b.z) * (a.z - b.z)

\* one component of Vector3.lerp: a + (b - a) * alpha, alpha in hundredths
LerpScalar(a, b, alpha) == a + RoundDiv((b - a) * alpha, 100)

\* Vector3.lerp(target, alpha)
Lerp(a, b, alpha) ==
    Vec(LerpScalar(a.x, b.x, alpha), LerpScalar(a.y, b.y, alpha), LerpScalar(a.z, b.z, alpha))

\* MathUtils.euclideanModulo(a + PI, 2 PI) - PI: into [-Pi, Pi)
WrapYaw(a) == ((a + Pi) % TwoPi) - Pi

\* the yaw Euler.setFromQuaternion reads back (atan2): into (-Pi, Pi]
NormalizeYaw(a) ==
    IF a > Pi THEN a - TwoPi ELSE IF a <= -Pi THEN a + TwoPi ELSE a

\* cosine and sine of r milliradians, |r| <= HalfPi, in thousandths (Taylor series)
CosSmall(r) ==
    LET r2 == RoundDiv(r * r, 100)
        r4 == RoundDiv(r2 * r2, 10000)
        r6 == RoundDiv(r4 * r2, 10000)
        r8 == RoundDiv(RoundDiv(r6, 10) * r2, 1000)
    IN  RoundDiv(10000 - RoundDiv(r2, 2) + RoundDiv(r4, 24) - RoundDiv(r6, 720)
                 + RoundDiv(r8, 40320), 10)

SinSmall(r) ==
    LET r2 == RoundDiv(r * r, 100)
        r4 == RoundDiv(r2 * r2, 10000)
        r6 == RoundDiv(r4 * r2, 10000)
        r8 == RoundDiv(RoundDiv(r6, 10) * r2, 1000)
    IN  RoundDiv(r * (10000 - RoundDiv(r2, 6) + RoundDiv(r4, 120) - RoundDiv(r6, 5040)
                      + RoundDiv(r8, 362880)), 10000)

\* Math.cos and Math.sin of a milliradians, in thousandths
Cos(a) ==
    LET w == WrapYaw(a)
    IN  IF w > HalfPi THEN -CosSmall(Pi - w)
        ELSE IF w < -HalfPi THEN -CosSmall(Pi + w)
        ELSE CosSmall(w)

Sin(a) ==
    LET w == WrapYaw(a)
    IN  IF w > HalfPi THEN SinSmall(Pi - w)
        ELSE IF w < -HalfPi THEN -SinSmall(Pi + w)
        ELSE SinSmall(w)

\* the signed rotation from yaw a to yaw b along which Quaternion.slerp moves:
\* the shorter arc (the target quaternion is negated when the dot product is < 0)
ShortestArc(a, b) ==
    LET raw == b - a
    IN  IF raw > Pi THEN raw - TwoPi ELSE IF raw < -Pi THEN raw + TwoPi ELSE raw

\* Quaternion.angleTo between two yaw-only orientations
AngleTo(a, b) == Abs(ShortestArc(a, b))

\* Quaternion.slerp(target, t) of yaw-only orientations, read back as a yaw
SlerpYaw(a, b, t) == NormalizeYaw(a + RoundDiv(ShortestArc(a, b) * t, 100))

-----------------------------------------------------------------------------
(* Bounds of the model and the inputs it draws *)

\* events and render frames in one run
MaxSteps == 4

\* the keys of keyMap that the local player's prediction reads
MoveKeys == {"forward", "backward", "left", "right", "sprint"}

\* pointer movements <<movementX, movementY>>, in pixels
PointerDeltas == {<<-200, 0>>, <<100, 40>>}

\* Math.sign(deltaY) of a wheel event
WheelSigns == {-1, 1}

\* render-frame deltas in half ticks (1/120 s): a 120 Hz display, and a 20 Hz one,
\* whose delta useFrame clamps to 1/30 s
FrameDeltas == {1, 6}

\* authoritative rows: position (position units) and rotation.y (milliradians)
Snapshot(x, y, z, rotY) == [position |-> Vec(x, y, z), rotY |-> rotY]

Snapshots ==
    { Snapshot(0, 0, 0, 0),
      Snapshot(10 * PosScale, 0, 10 * PosScale, 1000),
      Snapshot(10 * PosScale + 360, 0, 10 * PosScale, 0) }

-----------------------------------------------------------------------------
(* Motion predictor: Player.tsx calculateClientMovement *)

CAMERA_FOLLOW == "follow"
CAMERA_ORBITAL == "orbital"

\* mutant: the Follow branch uses the Orbital axis signs
LocalMoveOrbitalSigns(inputState, mode) ==
    [x |-> (IF inputState.left THEN 1 ELSE 0) - (IF inputState.right THEN 1 ELSE 0),
     z |-> (IF inputState.forward THEN 1 ELSE 0) - (IF inputState.backward THEN 1 ELSE 0)]

\* mutant: in Orbital, backward adds to Z as forward does
LocalMoveNoCancel(inputState, mode) ==
    IF mode = CAMERA_ORBITAL
    THEN [x |-> (IF inputState.left THEN 1 ELSE 0) - (IF inputState.right THEN 1 ELSE 0),
          z |-> (IF inputState.forward THEN 1 ELSE 0) + (IF inputState.backward THEN 1 ELSE 0)]
    ELSE [x |-> (IF inputState.right THEN 1 ELSE 0) - (IF inputState.left THEN 1 ELSE 0),
          z |-> (IF inputState.backward THEN 1 ELSE 0) - (IF inputState.forward THEN 1 ELSE 0)]

\* step 1: the local movement vector from WASD, signs swapped in Orbital
LocalMove(inputState, mode) ==
    IF mode = CAMERA_ORBITAL
    THEN [x |-> (IF inputState.left THEN 1 ELSE 0) - (IF inputState.right THEN 1 ELSE 0),
          z |-> (IF inputState.forward THEN 1 ELSE 0) - (IF inputState.backward THEN 1 ELSE 0)]
    ELSE [x |-> (IF inputState.right THEN 1 ELSE 0) - (IF inputState.left THEN 1 ELSE 0),
          z |-> (IF inputState.backward THEN 1 ELSE 0) - (IF inputState.forward THEN 1 ELSE 0)]

\* the local vector in ten-thousandths, normalized when lengthSq() > 1.1
NormalizedMove(m) ==
    IF 10 * (m.x * m.x + m.z * m.z) > 11
    THEN [x |-> m.x * 7071, z |-> m.z * 7071]
    ELSE [x |-> m.x * 10000, z |-> m.z * 10000]

\* mutant: Orbital uses the live yaw, as Follow does
RotationYawLive(mode, currentRotY, orb) == currentRotY

\* step 2: the yaw basis: the live yaw in Follow, the stored yaw in Orbital
RotationYaw(mode, currentRotY, orb) ==
    IF mode = CAMERA_FOLLOW THEN currentRotY ELSE orb.playerFacingRotation

\* speed * delta in position units; delta in ticks
StepLength(sprint, delta) ==
    LET walk == (PLAYER_SPEED * PosScale * delta) \div SERVER_TICK_RATE
    IN  IF sprint THEN (walk * SPRINT_MULTIPLIER) \div 10 ELSE walk

\* step 3: Vector3.applyAxisAngle((0,1,0), yaw) of the local vector, scaled by step
WorldMove(m, yaw, step) ==
    [x |-> RoundDiv((m.x * Cos(yaw) + m.z * Sin(yaw)) * step, 10000000),
     z |-> RoundDiv((m.z * Cos(yaw) - m.x * Sin(yaw)) * step, 10000000)]

calculateClientMovement(currentPos, currentRotY, inputState, delta) ==
    IF ~inputState.forward /\ ~inputState.backward /\ ~inputState.left /\ ~inputState.right
    THEN currentPos
    ELSE LET m == NormalizedMove(LocalMove(inputState, cameraMode))
             yaw == RotationYaw(cameraMode, currentRotY, orbital)
             w == WorldMove(m, yaw, StepLength(inputState.sprint, delta))
         IN  Vec(currentPos.x + w.x, currentPos.y, currentPos.z + w.z)

-----------------------------------------------------------------------------
(* Reconciler: Player.tsx useFrame, steps 2 and 2.5 *)

\* the snapshot position with x and z sign-inverted
Unflipped(p) == Vec(-p.x, p.y, -p.z)

\* whether the position correction is applied this frame
PositionReconcileFires(pos, serverPosition, mode) ==
    /\ DistSq(pos, Unflipped(serverPosition)) >
           POSITION_RECONCILE_THRESHOLD * POSITION_RECONCILE_THRESHOLD
    /\ mode # CAMERA_ORBITAL

\* mutant: the correction is applied in Orbital as well
ReconcilePositionInOrbital(pos, serverPosition, mode) ==
    IF DistSq(pos, Unflipped(serverPosition)) >
           POSITION_RECONCILE_THRESHOLD * POSITION_RECONCILE_THRESHOLD
    THEN Lerp(pos, serverPosition, RECONCILE_LERP_FACTOR)
    ELSE pos

\* mutant: the correction blends toward the sign-inverted position it compared with
ReconcilePositionUnflipped(pos, serverPosition, mode) ==
    IF PositionReconcileFires(pos, serverPosition, mode)
    THEN Lerp(pos, Unflipped(serverPosition), RECONCILE_LERP_FACTOR)
    ELSE pos

ReconcilePosition(pos, serverPosition, mode) ==
    IF PositionReconcileFires(pos, serverPosition, mode)
    THEN Lerp(pos, serverPosition, RECONCILE_LERP_FACTOR)
    ELSE pos

RotationReconcileFires(yaw, serverYaw) ==
    AngleTo(yaw, serverYaw) > ROTATION_RECONCILE_THRESHOLD

\* mutant: the rotation is never reconciled
ReconcileRotationNever(yaw, serverYaw) == yaw

ReconcileRotation(yaw, serverYaw) ==
    IF RotationReconcileFires(yaw, serverYaw)
    THEN SlerpYaw(yaw, serverYaw, RECONCILE_LERP_FACTOR)
    ELSE yaw

-----------------------------------------------------------------------------
(* The local Player instance: state after the model-load callback *)

NoFrame ==
    [ran |-> FALSE, mode |-> CAMERA_FOLLOW, input |-> NoInput, server |-> Snapshot(0, 0, 0, 0),
     pos0 |-> Vec(0, 0, 0), yaw0 |-> 0, basisYaw |-> 0, predicted |-> Vec(0, 0, 0),
     pos1 |-> Vec(0, 0, 0), yaw1 |-> 0]

InitOrbital ==
    [distance |-> 8000, angle |-> 0, elevation |-> DefaultElevation, playerFacingRotation |-> 0]

\* Player.tsx lines 93-129 (refs and state) and 243-251 (the model-load callback
\* copies the snapshot's position and rotation.y into the local refs)
InitPlayerWith(snapshot, input) ==
    /\ currentInput = input
    /\ cameraMode = CAMERA_FOLLOW
    /\ isPointerLocked = FALSE
    /\ playerData = snapshot
    /\ localPosition = snapshot.position
    /\ localYaw = snapshot.rotY
    /\ orbital = InitOrbital
    /\ zoomLevel = 5000
    /\ targetZoom = 5000
    /\ playerRotation = [x |-> 0, y |-> 0]
    /\ clock = 0
    /\ frames = 0
    /\ advances = 0
    /\ lastFrame = NoFrame
    /\ yawAtEntry = 0
    /\ steps = 0

\* the movement keys held when the model finishes loading are any combination
MoveInputs == {i \in AllInputs : ~i.jump /\ ~i.attack /\ ~i.castSpell}

InitPlayer == \E snapshot \in Snapshots, input \in MoveInputs : InitPlayerWith(snapshot, input)

-----------------------------------------------------------------------------
(* Events *)

\* App.tsx handleKeyDown (a repeat, or a key already set, changes nothing)
KeyDown(action) ==
    /\ steps < MaxSteps
    /\ steps' = steps + 1
    /\ ~currentInput[action]
    /\ currentInput' = [currentInput EXCEPT ![action] = TRUE]
    /\ UNCHANGED restVars
    /\ UNCHANGED <<animIn, animOut, cameraMode, isPointerLocked, localPosition, localYaw,
                   orbital, zoomLevel, targetZoom, playerData, playerRotation, clock,
                   frames, advances, lastFrame, yawAtEntry>>

\* App.tsx handleKeyUp
KeyUp(action) ==
    /\ steps < MaxSteps
    /\ steps' = steps + 1
    /\ currentInput[action]
    /\ currentInput' = [currentInput EXCEPT ![action] = FALSE]
    /\ UNCHANGED restVars
    /\ UNCHANGED <<animIn, animOut, cameraMode, isPointerLocked, localPosition, localYaw,
                   orbital, zoomLevel, targetZoom, playerData, playerRotation, clock,
                   frames, advances, lastFrame, yawAtEntry>>

\* Player.tsx handlePointerLockChange: the lock is taken (click) or released
PointerLockChange ==
    /\ steps < MaxSteps
    /\ steps' = steps + 1
    /\ isPointerLocked' = ~isPointerLocked
    /\ UNCHANGED restVars
    /\ UNCHANGED <<animIn, animOut, currentInput, cameraMode, localPosition, localYaw,
                   orbital, zoomLevel, targetZoom, playerData, playerRotation, clock,
                   frames, advances, lastFrame, yawAtEntry>>

Clamp(lo, hi, v) == Max(lo, Min(hi, v))

\* App.tsx handleMouseMove, which runs on the same event after the Player's listener:
\* yaw -= movementX * 0.002, pitch clamped to +-PI/2.5
AppMouseMove(rot, dx, dy) ==
    [x |-> Clamp(-RoundDiv(Pi * 10, 25), RoundDiv(Pi * 10, 25), rot.x - dy * 2),
     y |-> rot.y - dx * 2]

\* mutant: pointer movement in Orbital also turns the stored facing yaw
OrbitalPointerTurnsFacing(orb, dx, dy) ==
    [orb EXCEPT !.angle = orb.angle - dx * 5,
                !.playerFacingRotation = orb.playerFacingRotation - dx * 5,
                !.elevation = Clamp(MinElevation, MaxElevation, orb.elevation + dy * 5)]

\* Player.tsx handleMouseMove, Orbital branch: angle and clamped elevation
\* mutant: the orbital elevation is not clamped
OrbitalPointerUnclamped(orb, dx, dy) ==
    [orb EXCEPT !.angle = orb.angle - dx * 5, !.elevation = orb.elevation + dy * 5]

OrbitalPointer(orb, dx, dy) ==
    [orb EXCEPT !.angle = orb.angle - dx * 5,
                !.elevation = Clamp(MinElevation, MaxElevation, orb.elevation + dy * 5)]

\* one mousemove event under pointer lock: Player.tsx handleMouseMove (document),
\* its onRotationChange callback, then App.tsx handleMouseMove (window)
MouseMove(dx, dy) ==
    /\ isPointerLocked
    /\ steps < MaxSteps
    /\ steps' = steps + 1
    /\ IF cameraMode = CAMERA_FOLLOW
       THEN /\ localYaw' = WrapYaw(localYaw - dx * 3)
            /\ playerRotation' = AppMouseMove([x |-> 0, y |-> localYaw'], dx, dy)
            /\ UNCHANGED orbital
       ELSE /\ orbital' = OrbitalPointer(orbital, dx, dy)
            /\ playerRotation' = AppMouseMove(playerRotation, dx, dy)
            /\ UNCHANGED localYaw
    /\ UNCHANGED restVars
    /\ UNCHANGED <<animIn, animOut, currentInput, cameraMode, isPointerLocked,
                   localPosition, zoomLevel, targetZoom, playerData, clock, frames,
                   advances, lastFrame, yawAtEntry>>

\* Player.tsx handleMouseWheel; sign is Math.sign(deltaY)
MouseWheel(sign) ==
    /\ steps < MaxSteps
    /\ steps' = steps + 1
    /\ IF cameraMode = CAMERA_FOLLOW
       THEN /\ targetZoom' = Clamp(2000, 12000, zoomLevel + sign * 800)
            /\ UNCHANGED orbital
       ELSE /\ orbital' = [orbital EXCEPT
                              !.distance = Clamp(3000, 20000, orbital.distance + sign * 500)]
            /\ UNCHANGED targetZoom
    /\ UNCHANGED restVars
    /\ UNCHANGED <<animIn, animOut, currentInput, cameraMode, isPointerLocked,
                   localPosition, localYaw, zoomLevel, playerData, playerRotation, clock,
                   frames, advances, lastFrame, yawAtEntry>>

\* the body of toggleCameraMode (lines 789-808) and the render that commits the new
\* mode: entering Orbital stores the local yaw as facing yaw and as orbital angle
Toggled ==
    IF cameraMode = CAMERA_FOLLOW
    THEN /\ cameraMode' = CAMERA_ORBITAL
         /\ orbital' = [orbital EXCEPT !.playerFacingRotation = localYaw,
                                       !.angle = localYaw,
                                       !.elevation = DefaultElevation]
         /\ yawAtEntry' = localYaw
    ELSE /\ cameraMode' = CAMERA_FOLLOW
         /\ UNCHANGED <<orbital, yawAtEntry>>

\* Player.tsx toggleCameraMode, on a KeyC press that is not a repeat
ToggleCameraMode ==
    /\ steps < MaxSteps
    /\ steps' = steps + 1
    /\ Toggled
    /\ UNCHANGED restVars
    /\ UNCHANGED <<animIn, animOut, currentInput, isPointerLocked, localPosition, localYaw,
                   zoomLevel, targetZoom, playerData, playerRotation, clock, frames,
                   advances, lastFrame>>

\* App.tsx onUpdate: a new authoritative row replaces the playerData prop
ServerUpdate(snapshot) ==
    /\ steps < MaxSteps
    /\ steps' = steps + 1
    /\ snapshot # playerData
    /\ playerData' = snapshot
    /\ UNCHANGED restVars
    /\ UNCHANGED <<animIn, animOut, currentInput, cameraMode, isPointerLocked,
                   localPosition, localYaw, orbital, zoomLevel, targetZoom, playerRotation,
                   clock, frames, advances, lastFrame, yawAtEntry>>

\* Player.tsx useFrame for the local player, one render frame of `delta` half ticks:
\* prediction with the fixed SERVER_TICK_DELTA, position and rotation reconciliation,
\* Follow zoom easing.  (The group transform and camera.position it also writes are
\* render outputs that nothing below reads back.)
Frame(delta) ==
    /\ steps < MaxSteps
    /\ steps' = steps + 1
    /\ LET predicted == calculateClientMovement(localPosition, localYaw, currentInput,
                                                SERVER_TICK_DELTA)
           pos1 == ReconcilePosition(predicted, playerData.position, cameraMode)
           yaw1 == ReconcileRotation(localYaw, playerData.rotY)
           dt == Min(delta, 4)
       IN  /\ localPosition' = pos1
           /\ localYaw' = yaw1
           /\ zoomLevel' = IF cameraMode = CAMERA_FOLLOW
                           THEN zoomLevel
                                + RoundDiv((targetZoom - zoomLevel) * Min(100, 5 * dt), 100)
                           ELSE zoomLevel
           /\ lastFrame' = [ran |-> TRUE, mode |-> cameraMode, input |-> currentInput,
                            server |-> playerData, pos0 |-> localPosition,
                            yaw0 |-> localYaw,
                            basisYaw |-> RotationYaw(cameraMode, localYaw, orbital),
                            predicted |-> predicted,
                            pos1 |-> pos1, yaw1 |-> yaw1]
    /\ frames' = frames + 1
    /\ advances' = advances + 1
    /\ clock' = clock + delta
    /\ UNCHANGED restVars
    /\ UNCHANGED <<animIn, animOut, currentInput, cameraMode, isPointerLocked, orbital,
                   targetZoom, playerData, playerRotation, yawAtEntry>>

-----------------------------------------------------------------------------
(* The animation selector of Player.tsx: playAnimation, the server-tag     *)
(* effect, the one-shot completion effect and the initial-idle timeout.    *)
(* An action is "off" (never played), "playing", "clamped" (a LoopOnce     *)
(* clip that ran to its end and holds its last frame) or "fadedOut".       *)

\* Player.tsx ANIMATIONS: the 14 clip names
ANIMATIONS ==
    {"idle", "walk-forward", "walk-back", "walk-left", "walk-right", "run-forward",
     "run-back", "run-left", "run-right", "jump", "attack1", "cast", "damage", "death"}

\* loadAnimationFile: idle and the walk-/run- clips repeat, every other clip plays once
Looping == {"idle", "walk-forward", "walk-back", "walk-left", "walk-right", "run-forward",
            "run-back", "run-left", "run-right"}

\* the clips the completion effect tracks
TrackedOneShots == {"jump", "attack1", "cast"}

\* the clip sets a load can install: every clip, and loads in which some clips failed
LoadedSets ==
    {ANIMATIONS, ANIMATIONS \ {"idle"}, ANIMATIONS \ {"run-forward", "attack1"},
     {"idle", "jump"}, {}}

\* the animation tags a snapshot can carry: none, known clips, an unknown name
ServerTags == {"", "idle", "walk-forward", "run-forward", "jump", "attack1", "damage", "dance"}

\* the intents the player switches between
IntentInputs ==
    {NoInput, [NoInput EXCEPT !.forward = TRUE], [NoInput EXCEPT !.attack = TRUE],
     [NoInput EXCEPT !.jump = TRUE, !.forward = TRUE]}

MaxSelectorEvents == 4

NoEvent == [type |-> "none", name |-> "", before |-> "", played |-> "none"]

\* the selector while no clips are installed (Player.tsx useState initial values)
SelectorIdle ==
    /\ animations = {}
    /\ currentAnimation = "idle"
    /\ animationTag = ""
    /\ actions = [n \in {} |-> "off"]
    /\ listener = "none"
    /\ idleTimeout = FALSE
    /\ effectsPending = FALSE
    /\ lastEvent = NoEvent
    /\ selectorEvents = 0

\* the actions that are playing and not faded out
ActiveSet == {n \in animations : actions[n] \in {"playing", "clamped"}}

\* playAnimation: the clip it plays for a requested name ("none": it returns early)
PlayTarget(name, anims) ==
    IF name \in anims THEN name
    ELSE IF name # "idle" /\ "idle" \in anims THEN "idle"
    ELSE "none"

\* playAnimation: the actions after fading out the current action and starting target
PlayedActions(acts, current, target) ==
    [n \in DOMAIN acts |->
        IF n = target THEN "playing"
        ELSE IF n = current /\ acts[n] \in {"playing", "clamped"} THEN "fadedOut"
        ELSE acts[n]]

\* playAnimation(name) as called from a callback of the current render
playAnimation(name) ==
    LET target == PlayTarget(name, animations)
    IN  IF target = "none"
        THEN UNCHANGED <<actions, currentAnimation>>
        ELSE /\ actions' = PlayedActions(actions, currentAnimation, target)
             /\ currentAnimation' = target

\* mutant: the completion effect never registers its listener
ListenerForNone(current, anims) == "none"

\* the one-shot completion effect: the clip it listens for ("none")
ListenerFor(current, anims) ==
    IF current \in anims /\ current \in TrackedOneShots THEN current ELSE "none"

\* mutant: the server effect requests every non-empty tag that differs
ServerEffectRequestUnloaded(tag, current, anims) ==
    IF tag # "" /\ tag # current THEN tag ELSE "none"

\* mutant: the server effect ignores the tag
ServerEffectRequestNever(tag, current, anims) == "none"

\* the server-tag effect: the name it passes to playAnimation ("none": no call)
ServerEffectRequest(tag, current, anims) ==
    IF tag # "" /\ tag # current /\ tag \in anims THEN tag ELSE "none"

\* the effects of one committed render, in source order: the completion effect
\* re-registers its listener, then the server-tag effect runs
RunEffects ==
    /\ effectsPending
    /\ listener' = ListenerFor(currentAnimation, animations)
    /\ LET request == IF animations = {} THEN "none"
                      ELSE ServerEffectRequest(animationTag, currentAnimation, animations)
       IN  /\ IF request = "none"
              THEN UNCHANGED <<actions, currentAnimation>>
              ELSE playAnimation(request)
           /\ effectsPending' = (currentAnimation' # currentAnimation)
           /\ lastEvent' = [type |-> "effect", name |-> animationTag,
                            before |-> currentAnimation, played |-> request]
    /\ UNCHANGED <<animations, animationTag, idleTimeout, selectorEvents>>
    /\ UNCHANGED <<animVars, playerVars, laterVars>>

\* a snapshot with another animation tag replaces the playerData prop
TagUpdate(tag) ==
    /\ ~effectsPending
    /\ selectorEvents < MaxSelectorEvents
    /\ selectorEvents' = selectorEvents + 1
    /\ tag # animationTag
    /\ animationTag' = tag
    /\ effectsPending' = TRUE
    /\ lastEvent' = [type |-> "tag", name |-> tag, before |-> currentAnimation,
                     played |-> "none"]
    /\ UNCHANGED <<animations, currentAnimation, actions, listener, idleTimeout>>
    /\ UNCHANGED <<animVars, playerVars, laterVars>>

\* the initial-idle timeout fires: it starts the idle action and sets currentAnimation
\* without going through playAnimation
IdleTimeout ==
    /\ ~effectsPending
    /\ idleTimeout
    /\ selectorEvents < MaxSelectorEvents
    /\ selectorEvents' = selectorEvents + 1
    /\ idleTimeout' = FALSE
    /\ actions' = [actions EXCEPT !["idle"] = "playing"]
    /\ currentAnimation' = "idle"
    /\ effectsPending' = (currentAnimation # "idle")
    /\ lastEvent' = [type |-> "timeout", name |-> "idle", before |-> currentAnimation,
                     played |-> "idle"]
    /\ UNCHANGED <<animations, animationTag, listener>>
    /\ UNCHANGED <<animVars, playerVars, laterVars>>

\* a LoopOnce clip runs to its end: it clamps, the mixer dispatches 'finished', and the
\* registered onFinished listener, if it tracks this action, plays idle and removes itself
Finished(n) ==
    /\ ~effectsPending
    /\ n \in animations /\ n \notin Looping
    /\ actions[n] = "playing"
    /\ selectorEvents < MaxSelectorEvents
    /\ selectorEvents' = selectorEvents + 1
    /\ IF listener = n
       THEN LET target == PlayTarget("idle", animations)
                clamped == [actions EXCEPT ![n] = "clamped"]
            IN  /\ IF target = "none"
                   THEN /\ actions' = clamped
                        /\ UNCHANGED currentAnimation
                   ELSE /\ actions' = PlayedActions(clamped, currentAnimation, target)
                        /\ currentAnimation' = target
                /\ listener' = "none"
                /\ lastEvent' = [type |-> "finished", name |-> n,
                                 before |-> currentAnimation, played |-> target]
       ELSE /\ actions' = [actions EXCEPT ![n] = "clamped"]
            /\ UNCHANGED <<currentAnimation, listener>>
            /\ lastEvent' = [type |-> "finished", name |-> n,
                             before |-> currentAnimation, played |-> "none"]
    /\ effectsPending' = (currentAnimation' # currentAnimation)
    /\ UNCHANGED <<animations, animationTag, idleTimeout>>
    /\ UNCHANGED <<animVars, playerVars, laterVars>>

\* a key or button changes the intent: sendInput derives the animation name from it
\* and transmits it; nothing in the Player reads the intent for its animation
IntentChange(input) ==
    /\ ~effectsPending
    /\ selectorEvents < MaxSelectorEvents
    /\ selectorEvents' = selectorEvents + 1
    /\ input # currentInput
    /\ currentInput' = input
    /\ animIn' = input
    /\ animOut' = determineAnimation(input)
    /\ lastEvent' = [type |-> "intent", name |-> determineAnimation(input),
                     before |-> currentAnimation, played |-> "none"]
    /\ UNCHANGED <<animations, currentAnimation, animationTag, actions, listener,
                   idleTimeout, effectsPending>>
    /\ UNCHANGED <<cameraMode, isPointerLocked, localPosition, localYaw, orbital,
                   zoomLevel, targetZoom, playerData, playerRotation, clock, frames,
                   advances, lastFrame, yawAtEntry, steps>>
    /\ UNCHANGED laterVars

-----------------------------------------------------------------------------
(* The clip loader of Player.tsx: loadAnimations starts one fetch per clip; *)
(* a fetch that succeeds starts the FBX load of loadAnimationFile; every    *)
(* attempt ends in checkCompletedLoading.                                   *)

\* how many of the clips the loader model loads (the source loads all 14)
NumClips == 4

\* the clips in the order of animKeys
ClipOrder ==
    <<"idle", "walk-forward", "walk-back", "walk-left", "walk-right", "run-forward",
      "run-back", "run-left", "run-right", "jump", "attack1", "cast", "damage", "death">>

LoaderClips == {ClipOrder[i] : i \in 1..Min(NumClips, Len(ClipOrder))}

\* Object.keys(animationPaths).length
totalCount == Cardinality(LoaderClips)

\* the loader before loadAnimations has run
LoaderIdle ==
    /\ loadState = [c \in {} |-> "fetching"]
    /\ newAnimations = {}
    /\ loadedCount = 0
    /\ installs = <<>>
    /\ pendingAtInstall = 0

\* loadAnimations has returned: every fetch is in flight
InitLoader ==
    /\ loadState = [c \in LoaderClips |-> "fetching"]
    /\ newAnimations = {}
    /\ loadedCount = 0
    /\ installs = <<>>
    /\ pendingAtInstall = 0

\* the load attempts that have not finished, other than that of clip c
OthersPending(c) == {d \in LoaderClips \ {c} : loadState[d] # "done"}

\* checkCompletedLoading, called when the attempt for clip c ends with loadedCount at
\* `count` and newAnimations at `anims`
checkCompletedLoading(c, count, anims) ==
    /\ loadedCount' = count + 1
    /\ newAnimations' = anims
    /\ IF count + 1 = totalCount
       THEN /\ installs' = Append(installs, anims)
            /\ pendingAtInstall' = IF installs = <<>> THEN Cardinality(OthersPending(c))
                                   ELSE pendingAtInstall
       ELSE UNCHANGED <<installs, pendingAtInstall>>

\* fetch(path) resolves with response.ok false, or rejects with a network error: the
\* callback increments loadedCount itself and then calls checkCompletedLoading
FetchFailed(c) ==
    /\ loadState[c] = "fetching"
    /\ loadState' = [loadState EXCEPT ![c] = "done"]
    /\ checkCompletedLoading(c, loadedCount + 1, newAnimations)
    /\ UNCHANGED <<animVars, playerVars, selectorVars, projectileVars, targetingVars,
                   appVars, extraVars>>

\* fetch(path) resolves with response.ok: loadAnimationFile starts the FBX load
FetchOk(c) ==
    /\ loadState[c] = "fetching"
    /\ loadState' = [loadState EXCEPT ![c] = "loading"]
    /\ UNCHANGED <<newAnimations, loadedCount, installs, pendingAtInstall>>
    /\ UNCHANGED <<animVars, playerVars, selectorVars, projectileVars, targetingVars,
                   appVars, extraVars>>

\* the FBX load succeeds and the clip is processed into an action
LoadSucceeded(c) ==
    /\ loadState[c] = "loading"
    /\ loadState' = [loadState EXCEPT ![c] = "done"]
    /\ checkCompletedLoading(c, loadedCount, newAnimations \cup {c})
    /\ UNCHANGED <<animVars, playerVars, selectorVars, projectileVars, targetingVars,
                   appVars, extraVars>>

\* the FBX load fails: loader error, a file without animations, or an exception while
\* processing the clip
LoadFailed(c) ==
    /\ loadState[c] = "loading"
    /\ loadState' = [loadState EXCEPT ![c] = "done"]
    /\ checkCompletedLoading(c, loadedCount, newAnimations)
    /\ UNCHANGED <<animVars, playerVars, selectorVars, projectileVars, targetingVars,
                   appVars, extraVars>>

NextLoader ==
    \/ \E c \in LoaderClips : FetchFailed(c)
    \/ \E c \in LoaderClips : FetchOk(c)
    \/ \E c \in LoaderClips : LoadSucceeded(c)
    \/ \E c \in LoaderClips : LoadFailed(c)

-----------------------------------------------------------------------------
(* SmoothProjectile of GameScene.tsx, for a projectile and players in the   *)
(* ground plane.  Positions are <<x, z>> in thousandths of a world unit, a  *)
(* non-zero velocity is its heading in milliradians (direction              *)
(* <<cos, sin>>, length `speed`), frame durations are in milliseconds.      *)

\* projectile.speed || 15.0, in world units per second
ProjectileSpeed == 15

\* maxTurnRate, in radians per second (milliradians per millisecond)
maxTurnRate == 2

MaxProjectileFrames == 4

\* useFrame delta of a projectile frame, in milliseconds (not clamped by the source)
ProjectileDeltas == {16, 100, 1000}

\* where the target player can stand
TargetPositions == {<<10000, 0>>, <<-10000, 0>>, <<0, 8000>>, <<3000, -4000>>, <<0, 0>>}

NoTarget == [present |-> FALSE, at |-> <<0, 0>>]
TargetAt(pos) == [present |-> TRUE, at |-> pos]

AtRest == [moving |-> FALSE, heading |-> 0]
Moving3(h) == [moving |-> TRUE, heading |-> h]

\* the cross product of the direction of heading h with d, sign only mattering:
\* positive when d lies counter-clockwise of h
CrossWith(h, d) == Cos(h) * d[2] - Sin(h) * d[1]

\* the heading of d between lo and hi, a quarter turn that contains it, by bisection
RECURSIVE HeadingBetween(_, _, _)
HeadingBetween(d, lo, hi) ==
    IF hi - lo <= 1
    THEN IF Abs(CrossWith(lo, d)) <= Abs(CrossWith(hi, d)) THEN lo ELSE hi
    ELSE LET mid == (lo + hi) \div 2
         IN  IF CrossWith(mid, d) > 0 THEN HeadingBetween(d, mid, hi)
             ELSE HeadingBetween(d, lo, mid)

\* the heading of the non-zero vector d (the direction of d.normalize()), in (-Pi, Pi]
Heading(d) ==
    CASE d[2] = 0 /\ d[1] > 0 -> 0
      [] d[1] = 0 /\ d[2] > 0 -> HalfPi
      [] d[2] = 0 /\ d[1] < 0 -> Pi
      [] d[1] = 0 /\ d[2] < 0 -> -HalfPi
      [] d[1] > 0 /\ d[2] > 0 -> HeadingBetween(d, 0, HalfPi)
      [] d[1] < 0 /\ d[2] > 0 -> HeadingBetween(d, HalfPi, Pi)
      [] d[1] < 0 /\ d[2] < 0 -> HeadingBetween(d, -Pi, -HalfPi)
      [] d[1] > 0 /\ d[2] < 0 -> HeadingBetween(d, -HalfPi, 0)

\* Vector3.angleTo of two unit directions given by their headings
HeadingAngle(a, b) == Abs(ShortestArc(a, b))

\* mutant: the velocity always turns directly toward the target
TurnedVelocityDirect(vel, pos, target, dt) ==
    IF ~target.present THEN (IF vel.moving THEN vel ELSE Moving3(HalfPi))
    ELSE IF target.at = pos THEN vel
    ELSE Moving3(Heading(<<target.at[1] - pos[1], target.at[2] - pos[2]>>))

\* the velocity after the homing step of one frame of dt milliseconds
TurnedVelocity(vel, pos, target, dt) ==
    IF ~target.present
    THEN \* no target: straight line, +Z when at rest
         IF vel.moving THEN vel ELSE Moving3(HalfPi)
    ELSE LET d == <<target.at[1] - pos[1], target.at[2] - pos[2]>>
             toZero == (d = <<0, 0>>)      \* normalize() leaves the zero vector zero
             th == IF toZero THEN 0 ELSE Heading(d)
             maxAngleThisFrame == maxTurnRate * dt
         IN  IF ~vel.moving
             THEN IF toZero THEN AtRest ELSE Moving3(th)
             ELSE LET \* angleTo returns PI/2 when one vector is zero
                      angle == IF toZero THEN HalfPi ELSE HeadingAngle(vel.heading, th)
                      arc == ShortestArc(vel.heading, th)
                  IN  IF angle > maxAngleThisFrame
                      THEN \* rotate about cross(currentDir, toTarget); a zero cross
                           \* product (zero or opposite toTarget) gives no rotation
                           IF toZero \/ angle = Pi THEN vel
                           ELSE Moving3(NormalizeYaw(
                                    vel.heading + (IF arc > 0 THEN maxAngleThisFrame
                                                   ELSE -maxAngleThisFrame)))
                      ELSE IF toZero THEN AtRest ELSE Moving3(th)

\* currentPosition.add(velocity * delta)
MovedPosition(pos, vel, dt) ==
    IF ~vel.moving THEN pos
    ELSE <<pos[1] + RoundDiv(ProjectileSpeed * dt * Cos(vel.heading), 1000),
           pos[2] + RoundDiv(ProjectileSpeed * dt * Sin(vel.heading), 1000)>>

NoProjFrame ==
    [ran |-> FALSE, dt |-> 0, before |-> AtRest, after |-> AtRest, target |-> NoTarget,
     pos0 |-> <<0, 0>>, pos1 |-> <<0, 0>>]

\* no projectile is mounted
ProjectileIdle ==
    /\ projPosition = <<0, 0>>
    /\ projVelocity = AtRest
    /\ projTarget = NoTarget
    /\ lastProjFrame = NoProjFrame
    /\ projFrames = 0

\* a projectile is mounted at its spawn position with zero velocity
InitProjectile ==
    /\ projPosition \in {<<0, 0>>, <<1000, 2000>>}
    /\ projVelocity = AtRest
    /\ projTarget \in {NoTarget} \cup {TargetAt(q) : q \in TargetPositions}
    /\ lastProjFrame = NoProjFrame
    /\ projFrames = 0

\* SmoothProjectile useFrame: one frame of dt milliseconds
ProjectileFrame(dt) ==
    /\ projFrames < MaxProjectileFrames
    /\ projFrames' = projFrames + 1
    /\ LET vel == TurnedVelocity(projVelocity, projPosition, projTarget, dt)
           pos == MovedPosition(projPosition, vel, dt)
       IN  /\ projVelocity' = vel
           /\ projPosition' = pos
           /\ lastProjFrame' = [ran |-> TRUE, dt |-> dt, before |-> projVelocity,
                                after |-> vel, target |-> projTarget,
                                pos0 |-> projPosition, pos1 |-> pos]
    /\ UNCHANGED projTarget
    /\ UNCHANGED <<animVars, playerVars, selectorVars, loaderVars, targetingVars, appVars,
                   extraVars>>

\* a re-render with a new players map: the target player has moved
TargetMoves(q) ==
    /\ projFrames < MaxProjectileFrames
    /\ projFrames' = projFrames + 1
    /\ projTarget.present
    /\ q # projTarget.at
    /\ projTarget' = TargetAt(q)
    /\ UNCHANGED <<projPosition, projVelocity, lastProjFrame>>
    /\ UNCHANGED <<animVars, playerVars, selectorVars, loaderVars, targetingVars, appVars,
                   extraVars>>

NextProjectile ==
    \/ \E dt \in ProjectileDeltas : ProjectileFrame(dt)
    \/ \E q \in TargetPositions : TargetMoves(q)

-----------------------------------------------------------------------------
(* Target resolution of SmoothProjectile (GameScene.tsx): it is part of the  *)
(* render body, so it runs at mount and again on every re-render, with the  *)
(* projectile row and the players map of that render.                       *)

Identities == {"A", "B", "C"}

\* a row of the player table; positions in 1/PosScale unit like every player position
PlayerRow(id, x, z, rotY, tag) ==
    [identity |-> id, position |-> Vec(x * PosScale, 0, z * PosScale), rotY |-> rotY,
     currentAnimation |-> tag]

NoPlayers == [id \in {} |-> PlayerRow("A", 0, 0, 0, "idle")]

\* the players maps a render can see: nobody, the caster alone, one other player
\* alone, caster and one other, three players (no two at one distance from a spawn
\* position), and the other player somewhere else
PlayerMaps ==
    { NoPlayers,
      [id \in {"A"} |-> PlayerRow("A", 0, 0, 0, "idle")],
      [id \in {"B"} |-> PlayerRow("B", 10, 0, 0, "idle")],
      [id \in {"A", "B"} |-> PlayerRow(id, IF id = "A" THEN 0 ELSE 10, 0, 0, "idle")],
      [id \in {"A", "B"} |-> PlayerRow(id, IF id = "A" THEN 0 ELSE -10, 0, 0, "idle")],
      [id \in {"A", "B", "C"} |->
          PlayerRow(id, CASE id = "A" -> 1 [] id = "B" -> 0 [] id = "C" -> 3,
                        CASE id = "A" -> 0 [] id = "B" -> 8 [] id = "C" -> -4, 0, "idle")] }

\* a row of the projectile table, as far as SmoothProjectile reads it; "none" is a
\* missing reference, "D" names a player that is not in the map
ProjectileRow(pos, target, caster) ==
    [position |-> pos, targetIdentity |-> target, casterIdentity |-> caster]

SpawnPositions == {<<0, 0>>, <<1000, 2000>>}
TargetReferences == {"none", "B", "D"}
CasterReferences == {"none", "A"}

\* a player position in the projectile's units (thousandths of a unit, ground plane)
WorldPoint(position) ==
    <<RoundDiv(position.x * 1000, PosScale), RoundDiv(position.z * 1000, PosScale)>>

\* distance from the projectile row's position to a player, squared (lines 186-189;
\* the height difference is the same for every player standing on the ground)
RowDistSq(row, player) ==
    LET q == WorldPoint(player.position)
    IN  (q[1] - row.position[1]) * (q[1] - row.position[1])
        + (q[2] - row.position[2]) * (q[2] - row.position[2])

\* lines 170-171: players.get(targetIdentity)
ExplicitTarget(row, pl) ==
    IF row.targetIdentity # "none" /\ row.targetIdentity \in DOMAIN pl
    THEN row.targetIdentity ELSE "none"

\* lines 174-201: the nearest player that is not the caster, looked for only when the
\* map holds more than one player
FallbackTarget(row, pl) ==
    LET candidates == {id \in DOMAIN pl : row.casterIdentity = "none"
                                          \/ id # row.casterIdentity}
    IN  IF Cardinality(DOMAIN pl) > 1 /\ candidates # {}
        THEN CHOOSE id \in candidates :
                \A other \in candidates : RowDistSq(row, pl[id]) <= RowDistSq(row, pl[other])
        ELSE "none"

\* the identity of targetPlayer after lines 170-201 ("none" for null)
ResolveTargetId(row, pl) ==
    IF ExplicitTarget(row, pl) # "none" THEN ExplicitTarget(row, pl)
    ELSE FallbackTarget(row, pl)

\* targetPlayer as useFrame reads it: the target's position in that render's map
ResolveTarget(row, pl) ==
    IF ResolveTargetId(row, pl) = "none" THEN NoTarget
    ELSE TargetAt(WorldPoint(pl[ResolveTargetId(row, pl)].position))

\* mutant: a re-render copies the row's position into the running position
RenderedPositionFromRow(current, row) == row.position

\* the running position after a re-render: useRef keeps its value (line 160) and the
\* effect that copies the row's position has no dependencies (lines 165-167)
RenderedPosition(current, row) == current

\* no projectile row, no players
TargetingIdle ==
    /\ projectile = ProjectileRow(<<0, 0>>, "none", "none")
    /\ projSpawn = [position |-> <<0, 0>>, players |-> NoPlayers]

\* the mount of SmoothProjectile for a new row: first render, then the mount effect
InitTargeting ==
    /\ players \in PlayerMaps
    /\ projectile \in {ProjectileRow(pos, t, c) :
                          pos \in SpawnPositions, t \in TargetReferences,
                          c \in CasterReferences}
    /\ projSpawn = [position |-> projectile.position, players |-> players]
    /\ projPosition = projectile.position
    /\ projVelocity = AtRest
    /\ projTarget = ResolveTarget(projectile, players)
    /\ lastProjFrame = NoProjFrame
    /\ projFrames = 0

\* App.tsx setPlayers, then the re-render of GameScene and SmoothProjectile with the
\* new players map
PlayersChange(pl) ==
    /\ projFrames < MaxProjectileFrames
    /\ projFrames' = projFrames + 1
    /\ pl # players
    /\ players' = pl
    /\ projTarget' = ResolveTarget(projectile, pl)
    /\ projPosition' = RenderedPosition(projPosition, projectile)
    /\ UNCHANGED <<projVelocity, lastProjFrame, projectile, projSpawn>>
    /\ UNCHANGED <<localPlayer, conn, identity, connected, statusMessage, sequence,
                   animationFrameId, lastSentInputState, lastMessage, sentCount, loopCount,
                   lastRow, sessionEvents>>
    /\ UNCHANGED <<animVars, playerVars, selectorVars, loaderVars, extraVars>>

\* an update of the projectile's row (the server moved it), then the re-render of
\* SmoothProjectile, the same component instance because its key is the row's id
ProjectileRowUpdate(pos) ==
    /\ projFrames < MaxProjectileFrames
    /\ projFrames' = projFrames + 1
    /\ pos # projectile.position
    /\ projectile' = [projectile EXCEPT !.position = pos]
    /\ projTarget' = ResolveTarget(projectile', players)
    /\ projPosition' = RenderedPosition(projPosition, projectile')
    /\ UNCHANGED <<projVelocity, lastProjFrame, projSpawn>>
    /\ UNCHANGED <<animVars, playerVars, selectorVars, loaderVars, appVars, extraVars>>

NextTargeting ==
    \/ \E dt \in ProjectileDeltas : ProjectileFrame(dt)
    \/ \E pl \in PlayerMaps : PlayersChange(pl)
    \/ \E pos \in SpawnPositions : ProjectileRowUpdate(pos)

-----------------------------------------------------------------------------
(* The session of App.tsx: connection, the player table callbacks, the game *)
(* loop and sendInput.                                                      *)

MaxSessionEvents == 4

\* the identity the server assigns to this client, and another client's
LocalIdentity == "A"
SessionIdentities == {"A", "B"}

\* the rows the server can publish for an identity
SessionRows(id) ==
    { PlayerRow(id, 0, 0, 0, "idle"),
      PlayerRow(id, 10, 10, 1000, "walk-forward") }

NoRow == [identity |-> "none", position |-> Vec(0, 0, 0), rotY |-> 0,
          currentAnimation |-> ""]

\* lastSentInputState starts as {}: every field of a first intent differs from it
EmptyPayload == [present |-> FALSE, input |-> NoInput, sequence |-> 0]

NoMessage ==
    [sent |-> FALSE, input |-> NoInput, sequence |-> 0, position |-> Vec(0, 0, 0),
     rotation |-> [x |-> 0, y |-> 0], animation |-> "none", mounted |-> FALSE,
     predictedPosition |-> Vec(0, 0, 0), predictedYaw |-> 0, mode |-> CAMERA_FOLLOW]

NoRowEvent == [kind |-> "none", row |-> NoRow]

\* App.tsx lines 64-83, without the players map
SessionIdle ==
    /\ localPlayer = NoRow
    /\ conn = FALSE
    /\ identity = "none"
    /\ connected = FALSE
    /\ statusMessage = "Connecting..."
    /\ sequence = 0
    /\ animationFrameId = FALSE
    /\ lastSentInputState = EmptyPayload
    /\ lastMessage = NoMessage
    /\ sentCount = 0
    /\ loopCount = [run |-> 0, unchanged |-> 0, refused |-> 0]
    /\ lastRow = [id \in SessionIdentities |-> NoRowEvent]
    /\ sessionEvents = 0

\* App.tsx lines 64-83: the state of App when it mounts
AppIdle ==
    /\ players = NoPlayers
    /\ SessionIdle

\* the identity the table callbacks compare rows with: onConnect belongs to the
\* connection effect, which runs once after the first render (dependencies []), so
\* the registerTableCallbacks it calls is the first render's, whose identity is null
CapturedIdentity == "none"

IsLocalRow(row) == CapturedIdentity # "none" /\ row.identity = CapturedIdentity

\* mutant: an update merges the new position into the row already held
PlayersWithMerged(pl, row) ==
    [id \in DOMAIN pl \cup {row.identity} |->
        IF id # row.identity THEN pl[id]
        ELSE IF id \in DOMAIN pl THEN [pl[id] EXCEPT !.position = row.position]
        ELSE row]

\* new Map(prev).set(key, row): onInsert line 92, onUpdate lines 100-104
PlayersWith(pl, row) ==
    [id \in DOMAIN pl \cup {row.identity} |-> IF id = row.identity THEN row ELSE pl[id]]

\* new Map(prev) with the key deleted: onDelete lines 112-116
PlayersWithout(pl, id) == [other \in DOMAIN pl \ {id} |-> pl[other]]

\* mutant: a disconnect keeps the players map
PlayersAfterDisconnectKept(pl) == pl

\* onDisconnect line 403: setPlayers(new Map())
PlayersAfterDisconnect(pl) == NoPlayers

\* GameScene renders a Player with isLocalPlayer for the row of the session's identity
PlayerMounted == connected /\ identity # "none" /\ identity \in DOMAIN players

\* the guard of gameLoop (line 340), negated: the iteration runs
LoopRuns == connected /\ conn /\ identity # "none"

\* mutant: the game loop leaves the sequence number alone
NextSequenceSame(seq) == seq

\* gameLoop line 347
NextSequence(seq) == seq + 1

\* sendInput lines 230-238: some key of the intent differs from the last-sent
\* payload (the loop runs over every key, sequence included), or the sequence does
SendNeeded(input, seq, last) ==
    LET changed == \/ ~last.present
                   \/ \E k \in InputFlags : input[k] # last.input[k]
                   \/ seq # last.sequence
    IN  changed \/ ~last.present \/ seq # last.sequence

\* mutant: the last-sent payload keeps the sequence number it had
SentPayloadStaleSequence(input, seq, last) ==
    [present |-> TRUE, input |-> input, sequence |-> last.sequence]

\* sendInput line 240: lastSentInputState.current = { ...currentInputState }
SentPayload(input, seq, last) == [present |-> TRUE, input |-> input, sequence |-> seq]

\* sendInput lines 218-228 and 239: the arguments of updatePlayerInput, with the
\* predictor's state at that time recorded beside them
UpdatePlayerInput(input, seq) ==
    [sent |-> TRUE, input |-> input, sequence |-> seq,
     position |-> IF localPlayer = NoRow THEN Vec(0, 0, 0) ELSE localPlayer.position,
     rotation |-> playerRotation,
     animation |-> determineAnimation(input),
     mounted |-> PlayerMounted,
     predictedPosition |-> localPosition, predictedYaw |-> localYaw, mode |-> cameraMode]

\* onConnect (lines 383-394), the render it causes and the game-loop effect, which
\* schedules the first iteration
Connect ==
    /\ sessionEvents < MaxSessionEvents
    /\ sessionEvents' = sessionEvents + 1
    /\ ~conn
    /\ statusMessage = "Connecting..."
    /\ conn' = TRUE
    /\ identity' = LocalIdentity
    /\ connected' = TRUE
    /\ statusMessage' = "Connected as"
    /\ animationFrameId' = TRUE
    /\ UNCHANGED <<players, localPlayer, sequence, lastSentInputState, lastMessage,
                   sentCount, loopCount, lastRow>>
    /\ UNCHANGED <<animVars, selectorVars, loaderVars, projectileVars, targetingVars,
                   extraVars>>
    /\ UNCHANGED <<currentInput, cameraMode, isPointerLocked, localPosition, localYaw,
                   orbital, zoomLevel, targetZoom, playerData, playerRotation, clock,
                   frames, advances, lastFrame, yawAtEntry, steps>>

\* onDisconnect (lines 396-405) and the render it causes; a game-loop callback that
\* was already scheduled may still run before the effect's cleanup cancels it
Disconnect ==
    /\ sessionEvents < MaxSessionEvents
    /\ sessionEvents' = sessionEvents + 1
    /\ conn
    /\ statusMessage' = "Disconnected:"
    /\ conn' = FALSE
    /\ identity' = "none"
    /\ connected' = FALSE
    /\ players' = PlayersAfterDisconnect(players)
    /\ localPlayer' = NoRow
    /\ animationFrameId' \in BOOLEAN
    /\ UNCHANGED <<sequence, lastSentInputState, lastMessage, sentCount, loopCount,
                   lastRow>>
    /\ UNCHANGED <<animVars, selectorVars, loaderVars, projectileVars, targetingVars,
                   extraVars>>
    /\ UNCHANGED <<currentInput, cameraMode, isPointerLocked, localPosition, localYaw,
                   orbital, zoomLevel, targetZoom, playerData, playerRotation, clock,
                   frames, advances, lastFrame, yawAtEntry, steps>>

\* what a row event leaves of the Player of the session's identity: a new row mounts
\* it (refs at their initial values, then the model-load callback copies the row's
\* position and rotation.y), a later row replaces its playerData prop
PlayerAfterRow(row) ==
    IF connected /\ row.identity = identity
    THEN /\ playerData' = row
         /\ IF PlayerMounted
            THEN UNCHANGED <<localPosition, localYaw, cameraMode, orbital, zoomLevel,
                             targetZoom>>
            ELSE /\ localPosition' = row.position
                 /\ localYaw' = row.rotY
                 /\ cameraMode' = CAMERA_FOLLOW
                 /\ orbital' = InitOrbital
                 /\ zoomLevel' = 5000
                 /\ targetZoom' = 5000
    ELSE UNCHANGED <<playerData, localPosition, localYaw, cameraMode, orbital, zoomLevel,
                     targetZoom>>

\* the onInsert callback (lines 90-97) and the render it causes
OnInsert(row) ==
    /\ sessionEvents < MaxSessionEvents
    /\ sessionEvents' = sessionEvents + 1
    /\ conn
    /\ row.identity \notin DOMAIN players
    /\ players' = PlayersWith(players, row)
    /\ localPlayer' = IF IsLocalRow(row) THEN row ELSE localPlayer
    /\ statusMessage' = IF IsLocalRow(row) THEN "Registered as" ELSE statusMessage
    /\ lastRow' = [lastRow EXCEPT ![row.identity] = [kind |-> "insert", row |-> row]]
    /\ PlayerAfterRow(row)
    /\ UNCHANGED <<conn, identity, connected, sequence, animationFrameId,
                   lastSentInputState, lastMessage, sentCount, loopCount>>
    /\ UNCHANGED <<animVars, selectorVars, loaderVars, projectileVars, targetingVars,
                   extraVars>>
    /\ UNCHANGED <<currentInput, isPointerLocked, playerRotation, clock, frames, advances,
                   lastFrame, yawAtEntry, steps>>

\* conn.db.player.iter(): the rows of the client cache, which holds every row
\* inserted or updated and not deleted since
CachedRows ==
    [id \in {i \in SessionIdentities : lastRow[i].kind \in {"insert", "update"}} |->
        lastRow[id].row]

\* onSubscriptionApplied (lines 125-140) and the render it causes: an empty players
\* map is filled from the client cache
SubscriptionApplied ==
    /\ sessionEvents < MaxSessionEvents
    /\ sessionEvents' = sessionEvents + 1
    /\ conn
    /\ LET fill == players = NoPlayers
           mine == {id \in DOMAIN CachedRows : IsLocalRow(CachedRows[id])}
       IN  /\ players' = IF fill THEN CachedRows ELSE players
           /\ localPlayer' = IF fill /\ mine # {}
                             THEN CachedRows[CHOOSE id \in mine : TRUE] ELSE localPlayer
           /\ IF fill /\ identity \in DOMAIN CachedRows
              THEN PlayerAfterRow(CachedRows[identity])
              ELSE UNCHANGED <<playerData, localPosition, localYaw, cameraMode, orbital,
                               zoomLevel, targetZoom>>
    /\ UNCHANGED <<conn, identity, connected, statusMessage, sequence, animationFrameId,
                   lastSentInputState, lastMessage, sentCount, loopCount, lastRow>>
    /\ UNCHANGED <<animVars, selectorVars, loaderVars, projectileVars, targetingVars,
                   extraVars>>
    /\ UNCHANGED <<currentInput, isPointerLocked, playerRotation, clock, frames, advances,
                   lastFrame, yawAtEntry, steps>>

\* the onUpdate callback (lines 99-108) and the render it causes
OnUpdate(row) ==
    /\ sessionEvents < MaxSessionEvents
    /\ sessionEvents' = sessionEvents + 1
    /\ conn
    /\ row.identity \in DOMAIN players
    /\ row # players[row.identity]
    /\ players' = PlayersWith(players, row)
    /\ localPlayer' = IF IsLocalRow(row) THEN row ELSE localPlayer
    /\ lastRow' = [lastRow EXCEPT ![row.identity] = [kind |-> "update", row |-> row]]
    /\ PlayerAfterRow(row)
    /\ UNCHANGED <<conn, identity, connected, statusMessage, sequence, animationFrameId,
                   lastSentInputState, lastMessage, sentCount, loopCount>>
    /\ UNCHANGED <<animVars, selectorVars, loaderVars, projectileVars, targetingVars,
                   extraVars>>
    /\ UNCHANGED <<currentInput, isPointerLocked, playerRotation, clock, frames, advances,
                   lastFrame, yawAtEntry, steps>>

\* the onDelete callback (lines 110-121) and the render it causes
OnDelete(id) ==
    /\ sessionEvents < MaxSessionEvents
    /\ sessionEvents' = sessionEvents + 1
    /\ conn
    /\ id \in DOMAIN players
    /\ players' = PlayersWithout(players, id)
    /\ localPlayer' = IF IsLocalRow(players[id]) THEN NoRow ELSE localPlayer
    /\ statusMessage' = IF IsLocalRow(players[id]) THEN "Local player deleted!"
                        ELSE statusMessage
    /\ lastRow' = [lastRow EXCEPT ![id] = [kind |-> "delete", row |-> players[id]]]
    /\ UNCHANGED <<conn, identity, connected, sequence, animationFrameId,
                   lastSentInputState, lastMessage, sentCount, loopCount>>
    /\ UNCHANGED <<animVars, selectorVars, loaderVars, projectileVars, targetingVars,
                   extraVars>>
    /\ UNCHANGED <<currentInput, cameraMode, isPointerLocked, localPosition, localYaw,
                   orbital, zoomLevel, targetZoom, playerData, playerRotation, clock,
                   frames, advances, lastFrame, yawAtEntry, steps>>

\* gameLoop lines 347-348: the sequence number advances and sendInput runs
Iterated ==
    LET seq == NextSequence(sequence)
    IN  /\ sequence' = seq
        /\ loopCount' =
              [loopCount EXCEPT
                  !.run = @ + 1,
                  !.unchanged = IF /\ lastSentInputState.present
                                   /\ lastSentInputState.input = currentInput
                                THEN @ + 1 ELSE @]
        /\ IF SendNeeded(currentInput, seq, lastSentInputState)
           THEN /\ lastMessage' = UpdatePlayerInput(currentInput, seq)
                /\ lastSentInputState' =
                      SentPayload(currentInput, seq, lastSentInputState)
                /\ sentCount' = sentCount + 1
           ELSE UNCHANGED <<lastMessage, lastSentInputState, sentCount>>

\* gameLoop lines 340-346: the iteration returns without sending
Refused ==
    /\ loopCount' = [loopCount EXCEPT !.refused = @ + 1]
    /\ UNCHANGED <<sequence, lastMessage, lastSentInputState, sentCount>>

\* one scheduled run of gameLoop (lines 339-350) with the sendInput it calls (lines
\* 216-242); sendInput's own guard repeats the loop's
GameLoop ==
    /\ sessionEvents < MaxSessionEvents
    /\ sessionEvents' = sessionEvents + 1
    /\ animationFrameId
    /\ IF LoopRuns
       THEN /\ Iterated
            /\ UNCHANGED animationFrameId
       ELSE /\ animationFrameId' = FALSE
            /\ Refused
    /\ UNCHANGED <<players, localPlayer, conn, identity, connected, statusMessage, lastRow>>
    /\ UNCHANGED <<animVars, selectorVars, loaderVars, projectileVars, targetingVars,
                   extraVars>>
    /\ UNCHANGED <<currentInput, cameraMode, isPointerLocked, localPosition, localYaw,
                   orbital, zoomLevel, targetZoom, playerData, playerRotation, clock,
                   frames, advances, lastFrame, yawAtEntry, steps>>

\* the events of the mounted local Player
PlayerPointerLockChange == PlayerMounted /\ PointerLockChange
PlayerMouseMove(dx, dy) == PlayerMounted /\ MouseMove(dx, dy)
PlayerFrame(delta) == PlayerMounted /\ Frame(delta)

NextApp ==
    \/ Connect
    \/ Disconnect
    \/ \E id \in SessionIdentities : \E row \in SessionRows(id) : OnInsert(row)
    \/ \E id \in SessionIdentities : \E row \in SessionRows(id) : OnUpdate(row)
    \/ \E id \in SessionIdentities : OnDelete(id)
    \/ SubscriptionApplied
    \/ GameLoop
    \/ \E k \in {"forward", "sprint"} : KeyDown(k)
    \/ \E k \in {"forward", "sprint"} : KeyUp(k)
    \/ PlayerPointerLockChange
    \/ \E d \in PointerDeltas : PlayerMouseMove(d[1], d[2])
    \/ \E delta \in FrameDeltas : PlayerFrame(delta)

-----------------------------------------------------------------------------
(* The keyboard and mouse buttons: App.tsx handleKeyDown / handleKeyUp /      *)
(* handleMouseDown / handleMouseUp and the KeyC handler of the local Player. *)
(* A key sends a keydown that is not a repeat when it goes down, repeats     *)
(* while it is held, and a keyup when it is released.                        *)

\* the key codes pressed: the six of keyMap, the camera key, and a key bound to nothing
KeyCodes == {"KeyW", "KeyS", "KeyA", "KeyD", "ShiftLeft", "Space", "KeyC", "KeyQ"}

\* MouseEvent.button 0 and 2: the main button and the secondary one
MouseButtons == {"Mouse0", "Mouse2"}

\* at most this many KeyC presses in one run
MaxPressEdges == 3

\* mutant: a key is bound to castSpell
keyMapWithCast(code) ==
    CASE code = "KeyW" -> "forward"
      [] code = "KeyS" -> "backward"
      [] code = "KeyA" -> "left"
      [] code = "KeyD" -> "right"
      [] code = "ShiftLeft" -> "sprint"
      [] code = "Space" -> "jump"
      [] code = "KeyQ" -> "castSpell"
      [] OTHER -> "none"

\* App.tsx keyMap; "none" for a code it does not hold
keyMap(code) ==
    CASE code = "KeyW" -> "forward"
      [] code = "KeyS" -> "backward"
      [] code = "KeyA" -> "left"
      [] code = "KeyD" -> "right"
      [] code = "ShiftLeft" -> "sprint"
      [] code = "Space" -> "jump"
      [] OTHER -> "none"

\* App.tsx handleKeyDown: the intent after a keydown
InputAfterKeyDown(input, code, repeat) ==
    IF repeat \/ keyMap(code) = "none" THEN input
    ELSE [input EXCEPT ![keyMap(code)] = TRUE]

\* App.tsx handleKeyUp: the intent after a keyup
InputAfterKeyUp(input, code) ==
    IF keyMap(code) = "none" THEN input
    ELSE [input EXCEPT ![keyMap(code)] = FALSE]

\* mutant: the camera key toggles on repeats too
TogglesCameraOnRepeat(code, repeat) == code = "KeyC"

\* Player.tsx handleKeyDown line 816
TogglesCamera(code, repeat) == code = "KeyC" /\ ~repeat

\* nothing is held
InputIdle ==
    /\ held = {}
    /\ pressEdges = 0

\* one keydown event on window: App's listener, then the local Player's
KeyDownEvent(code, repeat) ==
    /\ repeat <=> code \in held
    /\ (code = "KeyC" /\ ~repeat) => pressEdges < MaxPressEdges
    /\ held' = held \cup {code}
    /\ pressEdges' = IF code = "KeyC" /\ ~repeat THEN pressEdges + 1 ELSE pressEdges
    /\ currentInput' = InputAfterKeyDown(currentInput, code, repeat)
    /\ IF TogglesCamera(code, repeat) THEN Toggled
       ELSE UNCHANGED <<cameraMode, orbital, yawAtEntry>>
    /\ UNCHANGED <<animVars, selectorVars, loaderVars, projectileVars, targetingVars,
                   appVars, lifecycleVars, loopVars, hudVars>>
    /\ UNCHANGED <<isPointerLocked, localPosition, localYaw, zoomLevel, targetZoom,
                   playerData, playerRotation, clock, frames, advances, lastFrame, steps>>

\* one keyup event on window
KeyUpEvent(code) ==
    /\ code \in held
    /\ held' = held \ {code}
    /\ currentInput' = InputAfterKeyUp(currentInput, code)
    /\ UNCHANGED pressEdges
    /\ UNCHANGED <<animVars, selectorVars, loaderVars, projectileVars, targetingVars,
                   appVars, lifecycleVars, loopVars, hudVars>>
    /\ UNCHANGED <<cameraMode, isPointerLocked, localPosition, localYaw, orbital,
                   zoomLevel, targetZoom, playerData, playerRotation, clock, frames,
                   advances, lastFrame, yawAtEntry, steps>>

\* App.tsx handleMouseDown
MouseDownEvent(button) ==
    /\ button \notin held
    /\ held' = held \cup {button}
    /\ currentInput' = IF button = "Mouse0" THEN [currentInput EXCEPT !.attack = TRUE]
                       ELSE currentInput
    /\ UNCHANGED pressEdges
    /\ UNCHANGED <<animVars, selectorVars, loaderVars, projectileVars, targetingVars,
                   appVars, lifecycleVars, loopVars, hudVars>>
    /\ UNCHANGED <<cameraMode, isPointerLocked, localPosition, localYaw, orbital,
                   zoomLevel, targetZoom, playerData, playerRotation, clock, frames,
                   advances, lastFrame, yawAtEntry, steps>>

\* App.tsx handleMouseUp
MouseUpEvent(button) ==
    /\ button \in held
    /\ held' = held \ {button}
    /\ currentInput' = IF button = "Mouse0" THEN [currentInput EXCEPT !.attack = FALSE]
                       ELSE currentInput
    /\ UNCHANGED pressEdges
    /\ UNCHANGED <<animVars, selectorVars, loaderVars, projectileVars, targetingVars,
                   appVars, lifecycleVars, loopVars, hudVars>>
    /\ UNCHANGED <<cameraMode, isPointerLocked, localPosition, localYaw, orbital,
                   zoomLevel, targetZoom, playerData, playerRotation, clock, frames,
                   advances, lastFrame, yawAtEntry, steps>>

NextInput ==
    \/ \E code \in KeyCodes, repeat \in BOOLEAN : KeyDownEvent(code, repeat)
    \/ \E code \in KeyCodes : KeyUpEvent(code)
    \/ \E button \in MouseButtons : MouseDownEvent(button)
    \/ \E button \in MouseButtons : MouseUpEvent(button)

-----------------------------------------------------------------------------
(* The life of one local Player instance (Player.tsx): the effects that      *)
(* register listeners, the model-load effect with its cleanup, the debug     *)
(* arrow of useFrame.  An effect's cleanup runs before the effect runs again *)
(* and at unmount; it sees the values of the render its effect ran in.  A    *)
(* handler is named by the number of the event that created it.              *)

MaxLifeEvents == 7

\* the listeners of the pointer effect (lines 734-737), on document
PointerListeners == {"pointerlockchange", "mousemove", "wheel", "click"}

ListenerTypes == PointerListeners \cup {"keydown", "finished"}

NoHandlers == [type \in ListenerTypes |-> {}]

\* no Player instance yet
LifecycleIdle ==
    /\ instanceState = "none"
    /\ registered = NoHandlers
    /\ effectHandler = [pointer |-> 0, key |-> 0, finished |-> 0]
    /\ mixerState = "none"
    /\ cleanupMixer = "none"
    /\ trackedCurrent = FALSE
    /\ isDebugArrowVisible = FALSE
    /\ arrowInScene = FALSE
    /\ lifeEvents = 0

\* mutant: removeEventListener leaves the handler registered
RemovedKept(handlers, handler) == handlers

\* removeEventListener(type, handler)
Removed(handlers, handler) == handlers \ {handler}

\* addEventListener(type, handler)
Added(handlers, handler) == handlers \cup {handler}

\* the cleanup of an effect followed by its next run, for the listeners `types`:
\* the handler of the last run is removed, the new one is added if the run registers
Rerun(reg, types, old, new, registers) ==
    [type \in ListenerTypes |->
        IF type \in types
        THEN IF registers THEN Added(Removed(reg[type], old), new)
             ELSE Removed(reg[type], old)
        ELSE reg[type]]

\* the mount of the instance for the local player: the effects run in the first
\* render's scope, where mixer is null (so no 'finished' listener yet, and the model
\* effect's cleanup closes over a null mixer)
MountPlayer ==
    /\ lifeEvents < MaxLifeEvents
    /\ lifeEvents' = lifeEvents + 1
    /\ instanceState = "none"
    /\ instanceState' = "mounted"
    /\ registered' = Rerun(registered, PointerListeners \cup {"keydown"}, 0, lifeEvents', TRUE)
    /\ effectHandler' = [pointer |-> lifeEvents', key |-> lifeEvents', finished |-> 0]
    /\ cleanupMixer' = mixerState
    /\ UNCHANGED <<mixerState, trackedCurrent, isDebugArrowVisible, arrowInScene>>
    /\ UNCHANGED <<animVars, playerVars, selectorVars, loaderVars, projectileVars,
                   targetingVars, appVars, inputVars, loopVars, hudVars>>

\* the FBXLoader callback (lines 208-252): the mixer is created; the render that
\* commits setMixer re-runs the completion effect, whose dependencies include mixer
ModelLoaded ==
    /\ lifeEvents < MaxLifeEvents
    /\ lifeEvents' = lifeEvents + 1
    /\ instanceState = "mounted"
    /\ mixerState = "none"
    /\ mixerState' = "created"
    /\ registered' = Rerun(registered, {"finished"}, effectHandler.finished, lifeEvents',
                           trackedCurrent)
    /\ effectHandler' = [effectHandler EXCEPT
                            !.finished = IF trackedCurrent THEN lifeEvents' ELSE 0]
    /\ UNCHANGED <<instanceState, cleanupMixer, trackedCurrent, isDebugArrowVisible,
                   arrowInScene>>
    /\ UNCHANGED <<animVars, playerVars, selectorVars, loaderVars, projectileVars,
                   targetingVars, appVars, inputVars, loopVars, hudVars>>

\* setCurrentAnimation to another clip, tracked (jump, attack1, cast) or not: the
\* completion effect (lines 748-786) is cleaned up and runs again
AnimationChange(tracked) ==
    /\ lifeEvents < MaxLifeEvents
    /\ lifeEvents' = lifeEvents + 1
    /\ instanceState = "mounted"
    /\ mixerState = "created"
    /\ tracked \/ trackedCurrent
    /\ trackedCurrent' = tracked
    /\ registered' = Rerun(registered, {"finished"}, effectHandler.finished, lifeEvents',
                           tracked)
    /\ effectHandler' = [effectHandler EXCEPT
                            !.finished = IF tracked THEN lifeEvents' ELSE 0]
    /\ UNCHANGED <<instanceState, mixerState, cleanupMixer, isDebugArrowVisible,
                   arrowInScene>>
    /\ UNCHANGED <<animVars, playerVars, selectorVars, loaderVars, projectileVars,
                   targetingVars, appVars, inputVars, loopVars, hudVars>>

\* the mixer's 'finished' event for the tracked action: onFinished plays idle and
\* removes itself (lines 766-773), and the completion effect runs again for idle
AnimationFinished ==
    /\ lifeEvents < MaxLifeEvents
    /\ lifeEvents' = lifeEvents + 1
    /\ instanceState = "mounted"
    /\ registered["finished"] # {}
    /\ trackedCurrent' = FALSE
    /\ registered' = Rerun([registered EXCEPT
                               !["finished"] = Removed(@, effectHandler.finished)],
                           {"finished"}, effectHandler.finished, lifeEvents', FALSE)
    /\ effectHandler' = [effectHandler EXCEPT !.finished = 0]
    /\ UNCHANGED <<instanceState, mixerState, cleanupMixer, isDebugArrowVisible,
                   arrowInScene>>
    /\ UNCHANGED <<animVars, playerVars, selectorVars, loaderVars, projectileVars,
                   targetingVars, appVars, inputVars, loopVars, hudVars>>

\* a KeyC press: toggleCameraMode, then the render with the new cameraMode re-runs
\* the pointer effect (dependency cameraMode) and the key effect (dependency
\* toggleCameraMode, itself rebuilt for the new cameraMode)
CameraToggled ==
    /\ lifeEvents < MaxLifeEvents
    /\ lifeEvents' = lifeEvents + 1
    /\ instanceState = "mounted"
    /\ Toggled
    /\ registered' = Rerun(Rerun(registered, PointerListeners, effectHandler.pointer,
                                 lifeEvents', TRUE),
                           {"keydown"}, effectHandler.key, lifeEvents', TRUE)
    /\ effectHandler' = [effectHandler EXCEPT !.pointer = lifeEvents', !.key = lifeEvents']
    /\ UNCHANGED <<instanceState, mixerState, cleanupMixer, trackedCurrent,
                   isDebugArrowVisible, arrowInScene>>
    /\ UNCHANGED <<animVars, selectorVars, loaderVars, projectileVars, targetingVars,
                   appVars, inputVars, loopVars, hudVars>>
    /\ UNCHANGED <<currentInput, isPointerLocked, localPosition, localYaw, zoomLevel,
                   targetZoom, playerData, playerRotation, clock, frames, advances,
                   lastFrame, steps>>

\* the debug panel is expanded or collapsed: the isDebugArrowVisible prop changes
DebugPanelToggled ==
    /\ lifeEvents < MaxLifeEvents
    /\ lifeEvents' = lifeEvents + 1
    /\ instanceState = "mounted"
    /\ isDebugArrowVisible' = ~isDebugArrowVisible
    /\ UNCHANGED <<instanceState, registered, effectHandler, mixerState, cleanupMixer,
                   trackedCurrent, arrowInScene>>
    /\ UNCHANGED <<animVars, playerVars, selectorVars, loaderVars, projectileVars,
                   targetingVars, appVars, inputVars, loopVars, hudVars>>

\* the debug-arrow part of useFrame (lines 966-1000), which runs once the model is
\* loaded: the arrow is added to the scene while the prop is set, removed otherwise
ArrowFrame ==
    /\ lifeEvents < MaxLifeEvents
    /\ lifeEvents' = lifeEvents + 1
    /\ instanceState = "mounted"
    /\ mixerState = "created"
    /\ arrowInScene' = isDebugArrowVisible
    /\ arrowInScene' # arrowInScene
    /\ UNCHANGED <<instanceState, registered, effectHandler, mixerState, cleanupMixer,
                   trackedCurrent, isDebugArrowVisible>>
    /\ UNCHANGED <<animVars, playerVars, selectorVars, loaderVars, projectileVars,
                   targetingVars, appVars, inputVars, loopVars, hudVars>>

\* the unmount of the instance (its row was deleted): every effect's cleanup runs;
\* the model effect's cleanup (lines 260-268) stops the mixer it closed over, if any;
\* useFrame stops, and nothing else touches the debug arrow
UnmountPlayer ==
    /\ lifeEvents < MaxLifeEvents
    /\ lifeEvents' = lifeEvents + 1
    /\ instanceState = "mounted"
    /\ instanceState' = "tornDown"
    /\ registered' = Rerun(Rerun(Rerun(registered, PointerListeners, effectHandler.pointer,
                                       0, FALSE),
                                 {"keydown"}, effectHandler.key, 0, FALSE),
                           {"finished"}, effectHandler.finished, 0, FALSE)
    /\ effectHandler' = [pointer |-> 0, key |-> 0, finished |-> 0]
    /\ mixerState' = IF cleanupMixer = "created" THEN "stopped" ELSE mixerState
    /\ UNCHANGED <<cleanupMixer, trackedCurrent, isDebugArrowVisible, arrowInScene>>
    /\ UNCHANGED <<animVars, playerVars, selectorVars, loaderVars, projectileVars,
                   targetingVars, appVars, inputVars, loopVars, hudVars>>

NextLifecycle ==
    \/ MountPlayer
    \/ ModelLoaded
    \/ \E tracked \in BOOLEAN : AnimationChange(tracked)
    \/ AnimationFinished
    \/ CameraToggled
    \/ DebugPanelToggled
    \/ ArrowFrame
    \/ UnmountPlayer

-----------------------------------------------------------------------------
(* The scheduling of the game loop (App.tsx lines 338-364): the callbacks    *)
(* requestAnimationFrame holds, the id in animationFrameIdRef, and the effect *)
(* that starts and cancels the loop.  The effect is passive: it is flushed    *)
(* some time after the render that changed its dependencies, and a scheduled  *)
(* callback may run in between.  gameLoop reads connected and identity from   *)
(* the render its effect ran in, and conn, a module variable, as it is now.   *)

MaxLoopEvents == 8

LoopIdle ==
    /\ pendingFrames = {}
    /\ frameRef = 0
    /\ effectStale = FALSE
    /\ appMounted = TRUE
    /\ loopEvents = 0

\* a callback handed to requestAnimationFrame
FrameRequest(id, isConnected, who) == [id |-> id, connected |-> isConnected, identity |-> who]

\* mutant: cancelAnimationFrame leaves the callback scheduled
CancelledKept(pending, id) == pending

\* cancelAnimationFrame(id)
Cancelled(pending, id) == {f \in pending : f.id # id}

\* the effect's cleanup (lines 357-363) and the cancel branch of gameLoop (341-344)
AfterCancel(pending, ref) == IF ref # 0 THEN Cancelled(pending, ref) ELSE pending

\* the effect body after its cleanup (lines 352-355): a loop is started when connected
\* and the ref is empty
StartLoop(pending, ref, id) ==
    IF connected /\ ref = 0
    THEN [pending |-> pending \cup {FrameRequest(id, connected, identity)}, ref |-> id]
    ELSE [pending |-> pending, ref |-> ref]

\* onConnect (lines 383-394) and the render it causes; the game-loop effect is due
LoopConnect ==
    /\ loopEvents < MaxLoopEvents
    /\ loopEvents' = loopEvents + 1
    /\ appMounted
    /\ ~conn
    /\ statusMessage = "Connecting..."
    /\ conn' = TRUE
    /\ identity' = LocalIdentity
    /\ connected' = TRUE
    /\ statusMessage' = "Connected as"
    /\ effectStale' = TRUE
    /\ UNCHANGED <<pendingFrames, frameRef, appMounted>>
    /\ UNCHANGED <<players, localPlayer, sequence, animationFrameId, lastSentInputState,
                   lastMessage, sentCount, loopCount, lastRow, sessionEvents>>
    /\ UNCHANGED <<animVars, playerVars, selectorVars, loaderVars, projectileVars,
                   targetingVars, inputVars, lifecycleVars, hudVars>>

\* onDisconnect (lines 396-405) and the render it causes; the game-loop effect is due
LoopDisconnect ==
    /\ loopEvents < MaxLoopEvents
    /\ loopEvents' = loopEvents + 1
    /\ appMounted
    /\ conn
    /\ statusMessage' = "Disconnected:"
    /\ conn' = FALSE
    /\ identity' = "none"
    /\ connected' = FALSE
    /\ players' = PlayersAfterDisconnect(players)
    /\ localPlayer' = NoRow
    /\ effectStale' = TRUE
    /\ UNCHANGED <<pendingFrames, frameRef, appMounted>>
    /\ UNCHANGED <<sequence, animationFrameId, lastSentInputState, lastMessage, sentCount,
                   loopCount, lastRow, sessionEvents>>
    /\ UNCHANGED <<animVars, playerVars, selectorVars, loaderVars, projectileVars,
                   targetingVars, inputVars, lifecycleVars, hudVars>>

\* a render in which sendInput is a new function (its dependencies identity,
\* localPlayer, connected: line 242), so that the game-loop effect is due
SendInputChanged ==
    /\ loopEvents < MaxLoopEvents
    /\ loopEvents' = loopEvents + 1
    /\ appMounted
    /\ ~effectStale
    /\ effectStale' = TRUE
    /\ UNCHANGED <<pendingFrames, frameRef, appMounted>>
    /\ UNCHANGED <<animVars, playerVars, selectorVars, loaderVars, projectileVars,
                   targetingVars, appVars, inputVars, lifecycleVars, hudVars>>

\* the flush of the game-loop effect: the cleanup of its last run (lines 357-363),
\* then its body (lines 352-355) in the scope of the latest render
FlushLoopEffect ==
    /\ loopEvents < MaxLoopEvents
    /\ loopEvents' = loopEvents + 1
    /\ appMounted
    /\ effectStale
    /\ effectStale' = FALSE
    /\ LET started == StartLoop(AfterCancel(pendingFrames, frameRef), 0, loopEvents')
       IN  /\ pendingFrames' = started.pending
           /\ frameRef' = started.ref
    /\ animationFrameId' = (frameRef' # 0)
    /\ UNCHANGED appMounted
    /\ UNCHANGED <<players, localPlayer, conn, identity, connected, statusMessage, sequence,
                   lastSentInputState, lastMessage, sentCount, loopCount, lastRow,
                   sessionEvents>>
    /\ UNCHANGED <<animVars, playerVars, selectorVars, loaderVars, projectileVars,
                   targetingVars, inputVars, lifecycleVars, hudVars>>

\* the browser runs the scheduled callback f: gameLoop (lines 339-350)
FrameCallback(f) ==
    /\ loopEvents < MaxLoopEvents
    /\ loopEvents' = loopEvents + 1
    /\ f \in pendingFrames
    /\ IF f.connected /\ conn /\ f.identity # "none"
       THEN /\ Iterated
            /\ pendingFrames' = (pendingFrames \ {f})
                                  \cup {FrameRequest(loopEvents', f.connected, f.identity)}
            /\ frameRef' = loopEvents'
       ELSE /\ Refused
            /\ pendingFrames' = AfterCancel(pendingFrames \ {f}, frameRef)
            /\ frameRef' = 0
    /\ animationFrameId' = (frameRef' # 0)
    /\ UNCHANGED <<effectStale, appMounted>>
    /\ UNCHANGED <<players, localPlayer, conn, identity, connected, statusMessage, lastRow,
                   sessionEvents>>
    /\ UNCHANGED <<animVars, playerVars, selectorVars, loaderVars, projectileVars,
                   targetingVars, inputVars, lifecycleVars, hudVars>>

\* App unmounts: the cleanup of the effect's last run (lines 357-363)
AppUnmount ==
    /\ loopEvents < MaxLoopEvents
    /\ loopEvents' = loopEvents + 1
    /\ appMounted
    /\ appMounted' = FALSE
    /\ effectStale' = FALSE
    /\ pendingFrames' = AfterCancel(pendingFrames, frameRef)
    /\ frameRef' = 0
    /\ animationFrameId' = FALSE
    /\ UNCHANGED <<players, localPlayer, conn, identity, connected, statusMessage, sequence,
                   lastSentInputState, lastMessage, sentCount, loopCount, lastRow,
                   sessionEvents>>
    /\ UNCHANGED <<animVars, playerVars, selectorVars, loaderVars, projectileVars,
                   targetingVars, inputVars, lifecycleVars, hudVars>>

NextLoop ==
    \/ LoopConnect
    \/ LoopDisconnect
    \/ SendInputChanged
    \/ FlushLoopEffect
    \/ \E f \in pendingFrames : FrameCallback(f)
    \/ AppUnmount

-----------------------------------------------------------------------------
(* The damage flash of the HUD (PlayerUI.tsx): the effect on playerData.health *)
(* and lastHealth, and the timer that ends the flash.                         *)

MaxHudEvents == 4

\* the health values the player's row takes
HealthValues == {0, 40, 70, 100}

NoUpdate == [kind |-> "none", from |-> 0, to |-> 0, compared |-> 0, flashed |-> FALSE]

\* PlayerUI at its mount for a row with health h: useState(playerData?.health || 0)
HudMounted(h) ==
    /\ health = h
    /\ lastHealth = h
    /\ showDamageFlash = FALSE
    /\ flashTimer = FALSE
    /\ lastUpdate = NoUpdate
    /\ hudEvents = 0

HudIdle == HudMounted(100)

\* the test of the effect: the flash is shown when health is below lastHealth
ShowsFlash(currentHealth, remembered) == currentHealth < remembered

\* a render with another playerData.health, and the effect it re-runs: the cleanup
\* of the last run clears its timer; then either the flash is set and a timer
\* started, with an early return, or lastHealth is updated (the render that follows
\* runs the effect once more, which changes nothing)
HealthUpdate(h) ==
    /\ hudEvents < MaxHudEvents
    /\ hudEvents' = hudEvents + 1
    /\ h # health
    /\ health' = h
    /\ IF ShowsFlash(h, lastHealth)
       THEN /\ showDamageFlash' = TRUE
            /\ flashTimer' = TRUE
            /\ UNCHANGED lastHealth
       ELSE /\ lastHealth' = h
            /\ flashTimer' = FALSE
            /\ UNCHANGED showDamageFlash
    /\ lastUpdate' = [kind |-> "update", from |-> health, to |-> h,
                      compared |-> lastHealth, flashed |-> ShowsFlash(h, lastHealth)]
    /\ UNCHANGED <<animVars, playerVars, selectorVars, loaderVars, projectileVars,
                   targetingVars, appVars, inputVars, lifecycleVars, loopVars>>

\* the timer fires: setShowDamageFlash(false); the effect's dependencies are unchanged
FlashTimeout ==
    /\ hudEvents < MaxHudEvents
    /\ hudEvents' = hudEvents + 1
    /\ flashTimer
    /\ flashTimer' = FALSE
    /\ showDamageFlash' = FALSE
    /\ UNCHANGED <<health, lastHealth, lastUpdate>>
    /\ UNCHANGED <<animVars, playerVars, selectorVars, loaderVars, projectileVars,
                   targetingVars, appVars, inputVars, lifecycleVars, loopVars>>

NextHud ==
    \/ \E h \in HealthValues : HealthUpdate(h)
    \/ FlashTimeout

\* everything outside the variable groups of the sections above is at rest
ExtraIdle ==
    /\ InputIdle
    /\ LifecycleIdle
    /\ LoopIdle
    /\ HudIdle

-----------------------------------------------------------------------------
(* Specifications *)

\* the local player in full: every event and render frames
Init ==
    /\ animIn = NoInput
    /\ animOut = "none"
    /\ InitPlayer
    /\ SelectorIdle
    /\ LoaderIdle
    /\ ProjectileIdle
    /\ TargetingIdle
    /\ AppIdle
    /\ ExtraIdle

Next ==
    \/ \E k \in MoveKeys : KeyDown(k)
    \/ \E k \in MoveKeys : KeyUp(k)
    \/ PointerLockChange
    \/ \E d \in PointerDeltas : MouseMove(d[1], d[2])
    \/ \E sign \in WheelSigns : MouseWheel(sign)
    \/ ToggleCameraMode
    \/ \E snapshot \in Snapshots : ServerUpdate(snapshot)
    \/ \E delta \in FrameDeltas : Frame(delta)

Spec == Init /\ [][Next]_vars

\* determineAnimation alone, applied to every InputState
InitAnim ==
    /\ animIn \in AllInputs
    /\ animOut = "none"
    /\ InitPlayerWith(Snapshot(0, 0, 0, 0), NoInput)
    /\ SelectorIdle
    /\ LoaderIdle
    /\ ProjectileIdle
    /\ TargetingIdle
    /\ AppIdle
    /\ ExtraIdle

\* one call of determineAnimation (App.tsx sendInput, line 228)
ApplyDetermine ==
    /\ animOut = "none"
    /\ animOut' = determineAnimation(animIn)
    /\ UNCHANGED restVars
    /\ UNCHANGED <<animIn, currentInput, cameraMode, isPointerLocked, localPosition,
                   localYaw, orbital, zoomLevel, targetZoom, playerData, playerRotation,
                   clock, frames, advances, lastFrame, yawAtEntry, steps>>

NextAnim == ApplyDetermine

SpecAnim == InitAnim /\ [][NextAnim]_vars

\* the render that commits setAnimations(newAnimations), with the tag of the snapshot
\* current at that time; the idle timeout is pending when idle is among the clips
InitSelector ==
    /\ animations \in LoadedSets
    /\ currentAnimation = "idle"
    /\ animationTag \in ServerTags
    /\ actions = [n \in animations |-> "off"]
    /\ listener = "none"
    /\ idleTimeout = ("idle" \in animations)
    /\ effectsPending = TRUE
    /\ lastEvent = NoEvent
    /\ selectorEvents = 0
    /\ animIn = NoInput
    /\ animOut = "idle"
    /\ InitPlayerWith(Snapshot(0, 0, 0, 0), NoInput)
    /\ LoaderIdle
    /\ ProjectileIdle
    /\ TargetingIdle
    /\ AppIdle
    /\ ExtraIdle

NextSelector ==
    \/ RunEffects
    \/ \E tag \in ServerTags : TagUpdate(tag)
    \/ IdleTimeout
    \/ \E n \in ANIMATIONS : Finished(n)
    \/ \E input \in IntentInputs : IntentChange(input)

SpecSelector == InitSelector /\ [][NextSelector]_vars

\* the effects of a committed render always run; nothing else is forced to happen
SpecSelectorFair == SpecSelector /\ WF_vars(RunEffects)

\* the clip loader alone: every outcome of every load, in every order
InitLoaderSpec ==
    /\ animIn = NoInput
    /\ animOut = "none"
    /\ InitPlayerWith(Snapshot(0, 0, 0, 0), NoInput)
    /\ SelectorIdle
    /\ InitLoader
    /\ ProjectileIdle
    /\ TargetingIdle
    /\ AppIdle
    /\ ExtraIdle

SpecLoader == InitLoaderSpec /\ [][NextLoader]_vars

\* one projectile alone
InitProjectileSpec ==
    /\ animIn = NoInput
    /\ animOut = "none"
    /\ InitPlayerWith(Snapshot(0, 0, 0, 0), NoInput)
    /\ SelectorIdle
    /\ LoaderIdle
    /\ InitProjectile
    /\ TargetingIdle
    /\ AppIdle
    /\ ExtraIdle

SpecProjectile == InitProjectileSpec /\ [][NextProjectile]_vars

\* one projectile with the renders that re-resolve its target
InitTargetingSpec ==
    /\ animIn = NoInput
    /\ animOut = "none"
    /\ InitPlayerWith(Snapshot(0, 0, 0, 0), NoInput)
    /\ SelectorIdle
    /\ LoaderIdle
    /\ InitTargeting
    /\ SessionIdle
    /\ ExtraIdle

SpecTargeting == InitTargetingSpec /\ [][NextTargeting]_vars

\* the session from the mount of App: no connection, no rows, no Player yet
InitApp ==
    /\ animIn = NoInput
    /\ animOut = "none"
    /\ InitPlayerWith(Snapshot(0, 0, 0, 0), NoInput)
    /\ SelectorIdle
    /\ LoaderIdle
    /\ ProjectileIdle
    /\ TargetingIdle
    /\ AppIdle
    /\ ExtraIdle

SpecApp == InitApp /\ [][NextApp]_vars

\* keys and mouse buttons with the local Player mounted
InitInput ==
    /\ animIn = NoInput
    /\ animOut = "none"
    /\ InitPlayerWith(Snapshot(0, 0, 0, 0), NoInput)
    /\ SelectorIdle
    /\ LoaderIdle
    /\ ProjectileIdle
    /\ TargetingIdle
    /\ AppIdle
    /\ InputIdle
    /\ LifecycleIdle
    /\ LoopIdle
    /\ HudIdle

SpecInput == InitInput /\ [][NextInput]_vars

\* pointer movements of the camera runs: PointerDeltas and fast flicks that carry the
\* yaw across +-PI and the elevation past both of its limits
CameraDeltas == PointerDeltas \cup {<<-1200, 0>>, <<0, 400>>, <<0, -400>>}

\* the camera of a mounted local Player after earlier wheel events: the orbital
\* distance 8 less nine steps of 0.5 or plus twenty-three, the Follow zoom 5 eased
\* to three steps of 0.8 below or eight above
InitCamera ==
    /\ animIn = NoInput
    /\ animOut = "none"
    /\ currentInput = NoInput
    /\ cameraMode = CAMERA_FOLLOW
    /\ isPointerLocked = FALSE
    /\ playerData \in Snapshots
    /\ localPosition = playerData.position
    /\ localYaw = playerData.rotY
    /\ \E distance \in {3500, 8000, 19500} :
          orbital = [InitOrbital EXCEPT !.distance = distance]
    /\ zoomLevel \in {2600, 5000, 11400}
    /\ targetZoom = zoomLevel
    /\ playerRotation = [x |-> 0, y |-> 0]
    /\ clock = 0
    /\ frames = 0
    /\ advances = 0
    /\ lastFrame = NoFrame
    /\ yawAtEntry = 0
    /\ steps = 0
    /\ SelectorIdle
    /\ LoaderIdle
    /\ ProjectileIdle
    /\ TargetingIdle
    /\ AppIdle
    /\ ExtraIdle

NextCamera ==
    \/ PointerLockChange
    \/ \E d \in CameraDeltas : MouseMove(d[1], d[2])
    \/ \E sign \in WheelSigns : MouseWheel(sign)
    \/ ToggleCameraMode
    \/ \E delta \in FrameDeltas : Frame(delta)

SpecCamera == InitCamera /\ [][NextCamera]_vars

\* one Player instance from before its mount to after its teardown
InitLifecycle ==
    /\ animIn = NoInput
    /\ animOut = "none"
    /\ InitPlayerWith(Snapshot(0, 0, 0, 0), NoInput)
    /\ SelectorIdle
    /\ LoaderIdle
    /\ ProjectileIdle
    /\ TargetingIdle
    /\ AppIdle
    /\ InputIdle
    /\ LifecycleIdle
    /\ LoopIdle
    /\ HudIdle

SpecLifecycle == InitLifecycle /\ [][NextLifecycle]_vars

\* App from its mount, before the connection is established
InitLoop ==
    /\ animIn = NoInput
    /\ animOut = "none"
    /\ InitPlayerWith(Snapshot(0, 0, 0, 0), NoInput)
    /\ SelectorIdle
    /\ LoaderIdle
    /\ ProjectileIdle
    /\ TargetingIdle
    /\ AppIdle
    /\ InputIdle
    /\ LifecycleIdle
    /\ LoopIdle
    /\ HudIdle

SpecLoop == InitLoop /\ [][NextLoop]_vars

\* PlayerUI from its mount for a row of any health
InitHud ==
    /\ animIn = NoInput
    /\ animOut = "none"
    /\ InitPlayerWith(Snapshot(0, 0, 0, 0), NoInput)
    /\ SelectorIdle
    /\ LoaderIdle
    /\ ProjectileIdle
    /\ TargetingIdle
    /\ AppIdle
    /\ InputIdle
    /\ LifecycleIdle
    /\ LoopIdle
    /\ \E h \in HealthValues : HudMounted(h)

SpecHud == InitHud /\ [][NextHud]_vars

-----------------------------------------------------------------------------
(* Claims about determineAnimation, under SpecAnim *)

Moving(input) == input.forward \/ input.backward \/ input.left \/ input.right

NoAction(input) == ~input.attack /\ ~input.castSpell /\ ~input.jump

MovementAnimations ==
    {"walk-forward", "walk-back", "walk-left", "walk-right",
     "run-forward", "run-back", "run-left", "run-right"}

\* the movement keys held, as a set
HeldMoves(input) == {k \in {"forward", "backward", "left", "right"} : input[k]}

\* C1: the derived animation follows the strict priority attack > cast > jump >
\* movement > idle, first match wins, for every combination of the eight flags
C1_PriorityOrder ==
    animOut # "none" =>
        /\ animIn.attack => animOut = "attack1"
        /\ (~animIn.attack /\ animIn.castSpell) => animOut = "cast"
        /\ (~animIn.attack /\ ~animIn.castSpell /\ animIn.jump) => animOut = "jump"
        /\ (NoAction(animIn) /\ Moving(animIn)) => animOut \in MovementAnimations
        /\ (NoAction(animIn) /\ ~Moving(animIn)) => animOut = "idle"

\* cast wins over jump and movement when attack is not set
C1_Witness ==
    /\ animOut = "cast"
    /\ ~animIn.attack /\ animIn.castSpell /\ animIn.jump /\ animIn.forward

\* C2: with exactly two perpendicular movement keys held and no attack/cast/jump, the
\* direction follows the tie-break table: forward+left -> left, forward+right -> right,
\* backward+left -> left, backward+right -> right
C2_TieBreakTable ==
    (animOut # "none" /\ NoAction(animIn)) =>
        /\ HeldMoves(animIn) \in {{"forward", "left"}, {"backward", "left"}}
              => animOut = (IF animIn.sprint THEN "run-left" ELSE "walk-left")
        /\ HeldMoves(animIn) \in {{"forward", "right"}, {"backward", "right"}}
              => animOut = (IF animIn.sprint THEN "run-right" ELSE "walk-right")

\* C3: with only a pair of opposite movement keys held and no attack/cast/jump, the
\* derived animation is idle
C3_OppositeKeysIdle ==
    (animOut # "none" /\ NoAction(animIn)
       /\ HeldMoves(animIn) \in {{"forward", "backward"}, {"left", "right"}})
        => animOut = "idle"

\* C4: with exactly one movement key held and no attack/cast/jump, the derived
\* animation is <move>-<dir>: dir forward/back/left/right for W/S/A/D, move run with
\* sprint and walk without
C4_SingleKeyTable ==
    (animOut # "none" /\ NoAction(animIn)) =>
        /\ HeldMoves(animIn) = {"forward"}
              => animOut = (IF animIn.sprint THEN "run-forward" ELSE "walk-forward")
        /\ HeldMoves(animIn) = {"backward"}
              => animOut = (IF animIn.sprint THEN "run-back" ELSE "walk-back")
        /\ HeldMoves(animIn) = {"left"}
              => animOut = (IF animIn.sprint THEN "run-left" ELSE "walk-left")
        /\ HeldMoves(animIn) = {"right"}
              => animOut = (IF animIn.sprint THEN "run-right" ELSE "walk-right")

\* S alone with sprint gives run-back
C4_Witness ==
    /\ animOut = "run-back"
    /\ NoAction(animIn) /\ animIn.sprint /\ HeldMoves(animIn) = {"backward"}

-----------------------------------------------------------------------------
(* Claims about the local player, under Spec *)

\* simulation ticks (1/60 s) elapsed since the model was loaded, rounded down and up
TicksElapsedFloor == clock \div 2
TicksElapsedCeil == (clock + 1) \div 2

\* C5: the predictor advances once per fixed simulation tick, not once per render
\* frame: the number of advances equals the number of ticks elapsed (to within the
\* tick in progress), whatever the number of render frames
C5_AdvancePerTick ==
    /\ TicksElapsedFloor <= advances
    /\ advances <= TicksElapsedCeil

\* the single-axis mapping table at yaw 0, as <<x, z>>
AxisOf(key) ==
    CASE key = "forward" -> <<0, -1>>
      [] key = "backward" -> <<0, 1>>
      [] key = "left" -> <<-1, 0>>
      [] key = "right" -> <<1, 0>>

\* C6: with exactly one movement key held, in Follow mode, one prediction step
\* displaces the position along the mapped axis (forward -Z, backward +Z, left -X,
\* right +X at yaw 0) rotated by the live yaw, by speed x (sprint ? 1.8 : 1) x 1/60;
\* {forward, sprint} at yaw 0 gives (0, 0, -0.15), which is 90 position units
C6_SingleAxisDisplacement ==
    (lastFrame.ran /\ lastFrame.mode = CAMERA_FOLLOW) =>
        \A key \in {"forward", "backward", "left", "right"} :
            HeldMoves(lastFrame.input) = {key} =>
                LET axis == AxisOf(key)
                    len == IF lastFrame.input.sprint THEN 90 ELSE 50
                    c == Cos(lastFrame.yaw0)
                    sn == Sin(lastFrame.yaw0)
                    dx == RoundDiv((axis[1] * c + axis[2] * sn) * len, 1000)
                    dz == RoundDiv((axis[2] * c - axis[1] * sn) * len, 1000)
                IN  /\ lastFrame.predicted =
                           Vec(lastFrame.pos0.x + dx, lastFrame.pos0.y, lastFrame.pos0.z + dz)
                    /\ (key = "forward" /\ lastFrame.input.sprint /\ lastFrame.yaw0 = 0)
                          => lastFrame.predicted =
                                 Vec(lastFrame.pos0.x, lastFrame.pos0.y, lastFrame.pos0.z - 90)

\* a Follow frame with W and sprint held at yaw 0 moved the prediction by (0, 0, -0.15)
C6_Witness ==
    /\ lastFrame.ran /\ lastFrame.mode = CAMERA_FOLLOW
    /\ HeldMoves(lastFrame.input) = {"forward"} /\ lastFrame.input.sprint
    /\ lastFrame.yaw0 = 0
    /\ lastFrame.predicted = Vec(lastFrame.pos0.x, lastFrame.pos0.y, lastFrame.pos0.z - 90)

\* the held movement keys cancel: none, only forward+backward, only left+right, all four
NetZero(input) == (input.forward <=> input.backward) /\ (input.left <=> input.right)

\* C7: a prediction step leaves the position unchanged whenever the net movement
\* input is zero, in either camera mode and with or without sprint
C7_NetZeroUnchanged ==
    (lastFrame.ran /\ NetZero(lastFrame.input)) => lastFrame.predicted = lastFrame.pos0

\* an Orbital frame at a non-zero stored yaw with all four keys and sprint held
C7_Witness ==
    /\ lastFrame.ran /\ lastFrame.mode = CAMERA_ORBITAL
    /\ HeldMoves(lastFrame.input) = {"forward", "backward", "left", "right"}
    /\ lastFrame.input.sprint
    /\ lastFrame.basisYaw # 0
    /\ lastFrame.predicted = lastFrame.pos0

\* C8: in Orbital, the movement-basis yaw of the predictor is the local yaw captured
\* at the most recent entry into Orbital; no pointer movement, scroll, reconciliation
\* or prediction step changes it, and a pointer movement in Orbital changes only the
\* orbital angle and elevation of the Player's state
C8_FrozenYaw ==
    /\ [](cameraMode = CAMERA_ORBITAL
            => RotationYaw(cameraMode, localYaw, orbital) = yawAtEntry)
    /\ [][(cameraMode = CAMERA_ORBITAL /\ cameraMode' = CAMERA_ORBITAL)
            => /\ RotationYaw(cameraMode', localYaw', orbital')
                    = RotationYaw(cameraMode, localYaw, orbital)
               /\ (orbital'.angle # orbital.angle \/ orbital'.elevation # orbital.elevation)
                     => /\ orbital'.playerFacingRotation = orbital.playerFacingRotation
                        /\ orbital'.distance = orbital.distance
                        /\ localYaw' = localYaw
                        /\ localPosition' = localPosition
                        /\ zoomLevel' = zoomLevel /\ targetZoom' = targetZoom]_vars

\* in Orbital, a frame predicted a move along the stored yaw while its rotation
\* reconciliation turned the local yaw away from the yaw stored at entry
C8_Witness ==
    /\ cameraMode = CAMERA_ORBITAL
    /\ lastFrame.ran /\ lastFrame.mode = CAMERA_ORBITAL
    /\ lastFrame.predicted # lastFrame.pos0
    /\ lastFrame.basisYaw = yawAtEntry
    /\ localYaw # yawAtEntry

\* v lies between a and b
Between(a, v, b) == (a <= v /\ v <= b) \/ (b <= v /\ v <= a)

\* C9: with a constant snapshot, Follow mode and no movement input, a reconciliation
\* step never increases the distance from the local position to the snapshot position
\* and never overshoots it
C9_NoOvershoot ==
    (lastFrame.ran /\ lastFrame.mode = CAMERA_FOLLOW /\ ~Moving(lastFrame.input)) =>
        /\ DistSq(lastFrame.pos1, lastFrame.server.position)
              <= DistSq(lastFrame.pos0, lastFrame.server.position)
        /\ Between(lastFrame.pos0.x, lastFrame.pos1.x, lastFrame.server.position.x)
        /\ Between(lastFrame.pos0.y, lastFrame.pos1.y, lastFrame.server.position.y)
        /\ Between(lastFrame.pos0.z, lastFrame.pos1.z, lastFrame.server.position.z)

\* the second of two successive frames, with the snapshot unchanged since before the
\* first, corrected the position again and brought it strictly closer
C9_Witness ==
    /\ frames >= 2
    /\ lastFrame.ran /\ lastFrame.mode = CAMERA_FOLLOW /\ ~Moving(lastFrame.input)
    /\ lastFrame.server = playerData
    /\ lastFrame.pos1 # lastFrame.pos0
    /\ lastFrame.pos0 # lastFrame.server.position
    /\ DistSq(lastFrame.pos1, lastFrame.server.position)
          < DistSq(lastFrame.pos0, lastFrame.server.position)

\* C10: every correction that fires is a partial blend: it moves the local state
\* strictly closer to the authoritative value and never lands exactly on it
C10_StrictPartialBlend ==
    lastFrame.ran =>
        /\ PositionReconcileFires(lastFrame.predicted, lastFrame.server.position,
                                  lastFrame.mode)
              => /\ DistSq(lastFrame.pos1, lastFrame.server.position)
                       < DistSq(lastFrame.predicted, lastFrame.server.position)
                 /\ lastFrame.pos1 # lastFrame.server.position
        /\ RotationReconcileFires(lastFrame.yaw0, lastFrame.server.rotY)
              => /\ AngleTo(lastFrame.yaw1, lastFrame.server.rotY)
                       < AngleTo(lastFrame.yaw0, lastFrame.server.rotY)
                 /\ lastFrame.yaw1 # lastFrame.server.rotY

\* C11: while the camera mode is Orbital the reconciler never changes the local
\* position, whatever its distance to the authoritative snapshot: a frame leaves the
\* position where the prediction step put it, and no other event moves it
C11_OrbitalNoPositionReconcile ==
    /\ []((lastFrame.ran /\ lastFrame.mode = CAMERA_ORBITAL)
            => lastFrame.pos1 = lastFrame.predicted)
    /\ [][(cameraMode = CAMERA_ORBITAL /\ cameraMode' = CAMERA_ORBITAL)
            => \/ localPosition' = localPosition
               \/ /\ frames' = frames + 1
                  /\ localPosition' = calculateClientMovement(localPosition, localYaw,
                                                              currentInput, SERVER_TICK_DELTA)]_vars

\* an Orbital frame whose prediction was beyond the threshold from the compared position
\* and away from the snapshot position, and which kept the prediction as it was
C11_Witness ==
    /\ lastFrame.ran /\ lastFrame.mode = CAMERA_ORBITAL
    /\ DistSq(lastFrame.predicted, Unflipped(lastFrame.server.position))
          > POSITION_RECONCILE_THRESHOLD * POSITION_RECONCILE_THRESHOLD
    /\ lastFrame.predicted # lastFrame.server.position
    /\ lastFrame.predicted # lastFrame.pos0
    /\ localPosition = lastFrame.predicted

-----------------------------------------------------------------------------
(* Claims about the animation selector, under SpecSelector *)

\* some animation request has started an action
SomeActionStarted == \E n \in animations : actions[n] # "off"

\* C12: after any interleaving of animation requests (server-tag effect, 'finished'
\* callback, initial-idle timeout), exactly one action is active, and it is the one
\* named by currentAnimation
C12_ExactlyOneActive ==
    (~effectsPending /\ SomeActionStarted) => ActiveSet = {currentAnimation}

\* the last callback was the 'finished' event of a clip in `clips`
FinishedOneOf(clips) == lastEvent.type = "finished" /\ lastEvent.name \in clips

C14_DamageDeathReturnToIdle ==
    (FinishedOneOf({"damage", "death"}) /\ lastEvent.before = lastEvent.name
        /\ "idle" \in animations)
    => currentAnimation = "idle"

\* C15: whenever the tag is non-empty, differs from the current animation and names a
\* loaded clip, the server-tag effect switches the playing action to the tag; once the
\* effects have run the current animation is the tag, and its action is active unless it
\* is the idle clip still waiting for the initial-idle timeout; and with the tag held
\* constant on a loaded looping clip the current animation eventually equals the tag and
\* stays equal
C15_TagWins ==
    /\ [][(effectsPending /\ animationTag # "" /\ animationTag # currentAnimation
              /\ animationTag \in animations)
            => /\ currentAnimation' = animationTag
               /\ actions'[animationTag] = "playing"
               /\ (currentAnimation \in animations
                     => actions'[currentAnimation] # "playing")]_vars
    /\ []((~effectsPending /\ animationTag \in animations)
            => /\ currentAnimation = animationTag
               /\ (animationTag \in ActiveSet \/ (animationTag = "idle" /\ idleTimeout)))
    /\ \A t \in ServerTags \cap Looping :
           <>[](animationTag = t /\ t \in animations) => <>[](currentAnimation = t)

\* the effect has switched from the walk to the run the tag now names
C15_Witness ==
    /\ lastEvent.type = "effect" /\ lastEvent.before = "walk-forward"
    /\ lastEvent.played = "run-forward"
    /\ animationTag = "run-forward"
    /\ currentAnimation = "run-forward"
    /\ actions["run-forward"] = "playing" /\ actions["walk-forward"] = "fadedOut"

\* the last callback was the server-tag effect handling a non-empty tag that names no
\* installed clip
HandledUnloadedTag ==
    /\ lastEvent.type = "effect"
    /\ lastEvent.name # "" /\ lastEvent.name \notin animations

\* C16: after handling a tag that names a clip that is not loaded, the playing action
\* is idle, provided the idle clip is loaded
C16_UnloadedTagFallsBackToIdle ==
    (HandledUnloadedTag /\ lastEvent.name \in ANIMATIONS /\ "idle" \in animations
        /\ SomeActionStarted)
    => currentAnimation = "idle"

\* C17: when the tag is not one of the available clip names, the server-tag effect
\* retains the current animation: it does not switch and fades nothing
C17_UnknownTagRetained ==
    [][(effectsPending /\ animationTag \notin animations)
         => /\ currentAnimation' = currentAnimation
            /\ actions' = actions]_vars

\* the effect handled the unknown tag "dance" while the walk was playing, and it still is
C17_Witness ==
    /\ HandledUnloadedTag /\ lastEvent.name = "dance"
    /\ ~effectsPending
    /\ currentAnimation = "walk-forward"
    /\ ActiveSet = {"walk-forward"}

\* C18: a change of the local intent changes the playing animation at once to the one
\* derived from the intent, before any snapshot carries the corresponding tag
C18_IntentDrivesAnimation ==
    (lastEvent.type = "intent" /\ lastEvent.name \in animations)
    => currentAnimation = lastEvent.name

-----------------------------------------------------------------------------
(* Claims about the clip loader, under SpecLoader *)

AllAttemptsFinished == \A c \in LoaderClips : loadState[c] = "done"

\* C19: whichever loads fail and in whatever order the loads complete, the clips that
\* loaded are installed exactly once, and only after every load attempt has finished
C19_InstalledOnceAfterAll ==
    /\ installs # <<>> => pendingAtInstall = 0
    /\ Len(installs) <= 1
    /\ AllAttemptsFinished => installs = <<newAnimations>>

-----------------------------------------------------------------------------
(* Claims about the projectile, under SpecProjectile *)

\* C20: over a frame of duration dt in which the velocity was already non-zero, the
\* angle between the velocity direction before and after the frame is at most
\* maxTurnRate x dt, wherever the target is (a velocity that the frame sets to zero has
\* no direction to compare)
C20_TurnRateBounded ==
    (lastProjFrame.ran /\ lastProjFrame.before.moving /\ lastProjFrame.after.moving)
    => HeadingAngle(lastProjFrame.before.heading, lastProjFrame.after.heading)
           <= maxTurnRate * lastProjFrame.dt

\* a frame in which the target was more than the frame's turn limit away from the
\* velocity direction, and the velocity turned by exactly the limit
C20_Witness ==
    /\ lastProjFrame.ran /\ lastProjFrame.before.moving /\ lastProjFrame.after.moving
    /\ lastProjFrame.target.present
    /\ lastProjFrame.target.at # lastProjFrame.pos0
    /\ HeadingAngle(lastProjFrame.before.heading,
                    Heading(<<lastProjFrame.target.at[1] - lastProjFrame.pos0[1],
                              lastProjFrame.target.at[2] - lastProjFrame.pos0[2]>>))
          > maxTurnRate * lastProjFrame.dt
    /\ HeadingAngle(lastProjFrame.before.heading, lastProjFrame.after.heading)
          = maxTurnRate * lastProjFrame.dt

-----------------------------------------------------------------------------
(* Claims about the projectile's target resolution, under SpecTargeting *)

\* the target reference of the row names a player of the current map
NamesPresentPlayer == projectile.targetIdentity \in DOMAIN players

\* the players other than the caster
OtherPlayers == {id \in DOMAIN players : id # projectile.casterIdentity}

\* the player's position is what the frames home on
TargetIs(id) == projTarget = TargetAt(WorldPoint(players[id].position))

\* the square of the distance from the spawn position to a player
SpawnDistSq(id) ==
    LET q == WorldPoint(players[id].position)
    IN  (q[1] - projSpawn.position[1]) * (q[1] - projSpawn.position[1])
        + (q[2] - projSpawn.position[2]) * (q[2] - projSpawn.position[2])

\* C21: a projectile mounted with no players present (so with no resolvable target)
\* takes the default heading +Z in its first frame and has that heading after every
\* later frame, whatever the players map has become
C21_DefaultHeadingKept ==
    (projSpawn.players = NoPlayers /\ lastProjFrame.ran) =>
        /\ lastProjFrame.after = Moving3(HalfPi)
        /\ projVelocity = Moving3(HalfPi)

\* C22: the target is the explicitly named player when that player is present;
\* otherwise it is the player nearest to the spawn position among the players other
\* than the caster, and never the caster
C22_ExplicitElseNearestOther ==
    /\ NamesPresentPlayer => TargetIs(projectile.targetIdentity)
    /\ (~NamesPresentPlayer /\ OtherPlayers # {}) =>
          \E id \in OtherPlayers :
              /\ TargetIs(id)
              /\ \A other \in OtherPlayers : SpawnDistSq(id) <= SpawnDistSq(other)
    /\ (~NamesPresentPlayer /\ projTarget.present) =>
          \A id \in DOMAIN players \ OtherPlayers : ~TargetIs(id)

\* C23: with a target reference that is absent or names nobody present, the
\* projectile has a target whenever some player other than the caster is present
C23_StraightOnlyWithoutCandidates ==
    (~NamesPresentPlayer /\ OtherPlayers # {}) => projTarget.present

\* C24: the running position changes only in a frame, by velocity x delta, and a
\* step that changes the projectile's row leaves running position and velocity alone
C24_OnlyIntegration ==
    [][/\ projPosition' # projPosition =>
             \E dt \in ProjectileDeltas :
                 /\ lastProjFrame' = [lastProjFrame' EXCEPT !.dt = dt]
                 /\ lastProjFrame'.pos0 = projPosition
                 /\ projPosition' = MovedPosition(projPosition, projVelocity', dt)
       /\ projectile' # projectile =>
             /\ projPosition' = projPosition
             /\ projVelocity' = projVelocity]_vars

\* the row was moved after the projectile had flown: the running position is where
\* the last frame left it, not where the row says
C24_Witness ==
    /\ lastProjFrame.ran
    /\ projectile.position # projSpawn.position
    /\ projPosition = lastProjFrame.pos1
    /\ projPosition # projectile.position
    /\ projPosition # projSpawn.position

-----------------------------------------------------------------------------
(* Claims about the session of App.tsx, under SpecApp *)

\* some field of the intent <<input, seq>> differs from the payload `last`; against
\* the empty payload {} every field differs
IntentDiffers(input, seq, last) ==
    \/ ~last.present
    \/ \E k \in InputFlags : input[k] # last.input[k]
    \/ seq # last.sequence

\* C25: updatePlayerInput is called only when a field of the current intent or its
\* sequence number differs from the last-sent payload, and after the call the
\* last-sent payload is the intent that was sent
C25_SendOnlyOnDifference ==
    [][sentCount' # sentCount =>
          /\ IntentDiffers(currentInput', sequence', lastSentInputState)
          /\ lastMessage'.input = currentInput'
          /\ lastMessage'.sequence = sequence'
          /\ lastSentInputState'.present
          /\ lastSentInputState'.input = lastMessage'.input
          /\ lastSentInputState'.sequence = lastMessage'.sequence]_vars

\* a second message has been sent, with a key held
C25_Witness ==
    /\ sentCount >= 2
    /\ lastSentInputState.present
    /\ lastSentInputState.input.forward
    /\ lastSentInputState.sequence = sequence

\* C26: the dedup suppresses identical inputs: once two game-loop iterations have run
\* while connected with the keys as they were at the last send, fewer messages have
\* been sent than iterations have run
C26_IdenticalInputsSuppressed ==
    loopCount.unchanged >= 2 => sentCount < loopCount.run

\* C27: a message sent while the local Player is mounted carries the predictor's
\* state: its position is the predicted local position and its rotation's yaw is the
\* predicted local yaw at the time of the send
C27_MessageCarriesPrediction ==
    (lastMessage.sent /\ lastMessage.mounted) =>
        /\ lastMessage.position = lastMessage.predictedPosition
        /\ lastMessage.rotation.y = lastMessage.predictedYaw

\* C28: the sequence number grows by exactly 1 in every game-loop iteration run while
\* connected, no other step changes it, and each message sent carries a larger
\* sequence number than the message before it
C28_SequenceMonotonic ==
    [][/\ loopCount'.run = loopCount.run + 1 => sequence' = sequence + 1
       /\ loopCount'.run = loopCount.run => sequence' = sequence
       /\ (sentCount' # sentCount /\ lastMessage.sent) =>
             lastMessage'.sequence > lastMessage.sequence]_vars

\* two messages were sent, with a key pressed before the second
C28_Witness ==
    /\ sentCount >= 2
    /\ lastMessage.sequence >= 2
    /\ lastMessage.input # NoInput

\* C29: while the connection lives, the players map holds for each identity exactly
\* the last whole row received for it, and nothing after a delete; and a frame of the
\* local Player reconciles position and rotation against one published row
C29_SnapshotsAtomic ==
    /\ conn =>
          \A id \in SessionIdentities :
              /\ id \in DOMAIN players <=> lastRow[id].kind \in {"insert", "update"}
              /\ id \in DOMAIN players => players[id] = lastRow[id].row
    /\ lastFrame.ran =>
          \E row \in SessionRows(LocalIdentity) :
              /\ lastFrame.server = row
              /\ lastFrame.pos1 = ReconcilePosition(lastFrame.predicted, row.position,
                                                    lastFrame.mode)
              /\ lastFrame.yaw1 = ReconcileRotation(lastFrame.yaw0, row.rotY)

\* a frame ran on the row of an update that changed position, rotation and tag
C29_Witness ==
    /\ lastFrame.ran
    /\ lastRow[LocalIdentity].kind = "update"
    /\ lastFrame.server = lastRow[LocalIdentity].row
    /\ players[LocalIdentity] = lastFrame.server

\* C30: a disconnect sets the status to "Disconnected:..." and clears the session
\* (no connection handle, no identity, not connected, no players, no local player),
\* and no message is sent afterwards
C30_DisconnectClearsSession ==
    /\ [](statusMessage = "Disconnected:" =>
             /\ ~conn
             /\ identity = "none"
             /\ ~connected
             /\ players = NoPlayers
             /\ localPlayer = NoRow)
    /\ [][/\ (conn /\ ~conn') => statusMessage' = "Disconnected:"
          /\ statusMessage = "Disconnected:" => sentCount' = sentCount]_vars

\* messages were sent, the connection was lost, and the game loop ran once more
C30_Witness ==
    /\ statusMessage = "Disconnected:"
    /\ sentCount > 0
    /\ loopCount.refused > 0

-----------------------------------------------------------------------------
(* Claims about keys and mouse buttons, under SpecInput *)

\* C33: the camera mode is Follow or Orbital, starts in Follow, and is Orbital exactly
\* when the number of KeyC presses so far is odd: a press flips it once, a repeat
\* while the key is held does not
C33_ToggleOnPressEdge ==
    /\ cameraMode \in {CAMERA_FOLLOW, CAMERA_ORBITAL}
    /\ cameraMode = CAMERA_ORBITAL <=> pressEdges % 2 = 1

\* back in Follow after two presses, with the key still held
C33_Witness ==
    /\ pressEdges = 2
    /\ "KeyC" \in held
    /\ cameraMode = CAMERA_FOLLOW

\* C38: castSpell is never set and the derived animation is never "cast"; every other
\* flag is set exactly while its key, or the main mouse button for attack, is held
C38_FlagsFollowKeys ==
    /\ ~currentInput.castSpell
    /\ determineAnimation(currentInput) # "cast"
    /\ \A code \in KeyCodes :
          keyMap(code) # "none" => (currentInput[keyMap(code)] <=> code \in held)
    /\ currentInput.attack <=> "Mouse0" \in held

\* attack with a movement key, while an unbound key and the other button are held
C38_Witness ==
    /\ currentInput.attack
    /\ currentInput.forward
    /\ {"KeyQ", "Mouse2"} \subseteq held
    /\ determineAnimation(currentInput) = "attack1"

-----------------------------------------------------------------------------
(* Claims about rotation reconciliation (Spec) and the camera clamps (SpecCamera) *)

\* C34: a frame changes the local yaw by reconciliation only when the angle between
\* the local and the authoritative yaw exceeds 0.1 rad, leaves it unchanged when the
\* angle is at most 0.1 rad, and turns it toward the authoritative yaw when the angle
\* exceeds 0.1 rad in Follow and in Orbital alike
C34_RotationThreshold ==
    lastFrame.ran =>
        LET err == AngleTo(lastFrame.yaw0, lastFrame.server.rotY)
        IN  /\ lastFrame.yaw1 # lastFrame.yaw0 => err > ROTATION_RECONCILE_THRESHOLD
            /\ err <= ROTATION_RECONCILE_THRESHOLD => lastFrame.yaw1 = lastFrame.yaw0
            /\ err > ROTATION_RECONCILE_THRESHOLD =>
                  AngleTo(lastFrame.yaw1, lastFrame.server.rotY) < err

\* an Orbital frame whose rotation reconciliation fired
C34_Witness ==
    /\ lastFrame.ran
    /\ lastFrame.mode = CAMERA_ORBITAL
    /\ AngleTo(lastFrame.yaw0, lastFrame.server.rotY) > ROTATION_RECONCILE_THRESHOLD
    /\ lastFrame.yaw1 # lastFrame.yaw0

\* C35: the orbital elevation stays in [PI/12, PI/2.1], the orbital distance in
\* [3, 20] and the Follow target zoom in [2, 12], and a pointer move in Follow leaves
\* the local yaw in [-PI, PI)
C35_CameraClamps ==
    /\ [](/\ MinElevation <= orbital.elevation /\ orbital.elevation <= MaxElevation
          /\ 3000 <= orbital.distance /\ orbital.distance <= 20000
          /\ 2000 <= targetZoom /\ targetZoom <= 12000)
    /\ [][(cameraMode = CAMERA_FOLLOW /\ frames' = frames /\ localYaw' # localYaw) =>
             (-Pi <= localYaw' /\ localYaw' < Pi)]_vars

\* a pointer flick in Orbital that the lower elevation limit stopped
C35_Witness ==
    /\ cameraMode = CAMERA_ORBITAL
    /\ isPointerLocked
    /\ orbital.elevation = MinElevation

-----------------------------------------------------------------------------
(* Further claims about target resolution (SpecTargeting) and the session (SpecApp) *)

\* the player the projectile's first render resolved
SpawnTargetId ==
    ResolveTargetId([projectile EXCEPT !.position = projSpawn.position], projSpawn.players)

\* C36: the player a projectile homes on is the one resolved at spawn for as long as
\* that player is present, whatever has happened to the players map and to the
\* projectile's row since; only that player's position is read anew
C36_TargetFixedAtSpawn ==
    (SpawnTargetId # "none" /\ SpawnTargetId \in DOMAIN players) => TargetIs(SpawnTargetId)

\* C37: while connected, localPlayer is the players-map entry of the client's
\* identity, and null when the map has no such entry
C37_LocalPlayerTracksRow ==
    connected =>
        localPlayer = IF identity \in DOMAIN players THEN players[identity] ELSE NoRow

-----------------------------------------------------------------------------
(* Claims about the teardown of a Player instance, under SpecLifecycle *)

\* C31: for every listener type the instance has at most one handler registered at
\* any time, and none once it has been torn down
C31_ListenersRemoved ==
    \A type \in ListenerTypes :
        /\ Cardinality(registered[type]) <= 1
        /\ instanceState = "tornDown" => registered[type] = {}

\* torn down in Orbital (so after a toggle re-registered the pointer and key
\* handlers) while a tracked one-shot was current (so with a 'finished' listener)
C31_Witness ==
    /\ instanceState = "tornDown"
    /\ cameraMode = CAMERA_ORBITAL
    /\ trackedCurrent
    /\ mixerState # "none"

\* C32: once an instance whose mixer was created has been torn down, that mixer has
\* been stopped and the debug arrow is no longer in the scene
C32_TeardownStopsMixer ==
    (instanceState = "tornDown" /\ mixerState # "none") =>
        /\ mixerState = "stopped"
        /\ ~arrowInScene

-----------------------------------------------------------------------------
(* Claims about the scheduling of the game loop, under SpecLoop *)

\* C39: at most one game-loop callback is scheduled at any time, the one the ref
\* names, and none after unmount; a step that schedules a callback leaves no other
\* callback scheduled; an iteration that refuses to run schedules nothing
C39_OneLoopScheduled ==
    /\ [](/\ Cardinality(pendingFrames) <= 1
          /\ \A f \in pendingFrames : f.id = frameRef
          /\ ~appMounted => pendingFrames = {})
    /\ [][/\ (pendingFrames' \ pendingFrames # {}) => Cardinality(pendingFrames') = 1
          /\ loopCount'.refused > loopCount.refused => pendingFrames' = {}]_vars

\* iterations ran, the callback that was still scheduled at the disconnect ran before
\* the effect was flushed and refused, and nothing is scheduled any more
C39_Witness ==
    /\ loopCount.run > 0
    /\ loopCount.refused > 0
    /\ ~connected
    /\ ~effectStale
    /\ pendingFrames = {}

-----------------------------------------------------------------------------
(* Claims about the HUD damage flash, under SpecHud *)

\* C40: a health update triggers the flash only if it lowers the health, and the
\* value it is compared with, the remembered last health, is the health that was
\* observed before the update
C40_FlashOnlyOnDecrease ==
    lastUpdate.kind = "update" =>
        /\ lastUpdate.flashed => lastUpdate.to < lastUpdate.from
        /\ lastUpdate.compared = lastUpdate.from

=============================================================================
